---- MODULE Spec2Model ----
(***************************************************************************)
(* SAR narrative section mapping (frontend-new/src/utils/                  *)
(* sar-narrative-mapper.ts and the mapper revisions kept in                *)
(* frontend-new/src/types/index.ts).                                       *)
(*                                                                         *)
(* The mappers are pure functions of an untyped JSON bundle.  The model    *)
(* keeps JavaScript's value semantics where the code relies on them:       *)
(*   - a value is a tagged record (undefined, number, NaN, string, array,  *)
(*     object); a raised TypeError is the value TypeError and propagates;  *)
(*   - a number is kept in hundredths (Cents), so that two-decimal         *)
(*     currency amounts are exact integers;                                *)
(*   - a string is a sequence of fragments.  Strings whose characters the  *)
(*     code inspects (status, transaction type, row label, occupation,     *)
(*     currency text) are given one character per fragment; template text  *)
(*     and opaque field values (names, account numbers, dates) are one     *)
(*     fragment each.  Concatenation is \o.                                *)
(***************************************************************************)
EXTENDS Integers, Sequences, FiniteSets, TLC

VARIABLES
    response,   \* the bundle handed to mapBackendDataToSections
    schema,     \* which mapper revision has run: "none" before the call
    outcome,    \* "pending" | "returned" | "threw"
    sections,   \* the returned mapping: key -> [id, title, content]
    caseInfo,   \* the edit page's case-info header state, {} before the fetch
    page        \* the rest of the edit page's state and its requests in flight

vars == <<response, schema, outcome, sections, caseInfo, page>>

----------------------------------------------------------------------------
(* JavaScript values *)

Undefined == [t |-> "undefined"]
TypeError == [t |-> "throw"]
NaN == [t |-> "NaN"]
Cents(d) == d * 100
Num(n) == [t |-> "number", v |-> n]
N(k) == Num(Cents(k))
Str(s) == [t |-> "string", v |-> s]
L(s) == Str(<<s>>)
EmptyStr == Str(<<>>)
Arr(a) == [t |-> "array", v |-> a]
Obj(f) == [t |-> "object", v |-> f]
Bool(b) == [t |-> "boolean", v |-> b]
EmptyObj == Obj(<<>>)

IsThrow(x) == x.t = "throw"
Raised(es) == \E i \in DOMAIN es : IsThrow(es[i])

\* ToBoolean
Truthy(x) ==
    CASE x.t = "undefined" -> FALSE
      [] x.t = "NaN" -> FALSE
      [] x.t = "throw" -> FALSE
      [] x.t = "number" -> x.v # 0
      [] x.t = "string" -> x.v # <<>>
      [] x.t = "boolean" -> x.v
      [] OTHER -> TRUE

\* a || b
Or(a, b) == IF IsThrow(a) THEN a ELSE IF Truthy(a) THEN a ELSE b

\* o.k and o[k]: a TypeError on undefined, undefined for a missing key
Dot(o, k) ==
    CASE o.t = "throw" -> o
      [] o.t = "undefined" -> TypeError
      [] o.t = "object" -> IF k \in DOMAIN o.v THEN o.v[k] ELSE Undefined
      [] OTHER -> Undefined

\* o?.k and o?.[k]
QDot(o, k) == IF o.t = "undefined" THEN Undefined ELSE Dot(o, k)

\* a[i] with a 0-based index i
Idx(a, i) ==
    CASE a.t = "throw" -> a
      [] a.t = "undefined" -> TypeError
      [] a.t = "array" -> IF i + 1 \in DOMAIN a.v THEN a.v[i + 1] ELSE Undefined
      [] OTHER -> Undefined

QIdx(a, i) == IF a.t = "undefined" THEN Undefined ELSE Idx(a, i)

\* a.length as a model integer (0 when a has no length); the callers guard a
Length(a) == IF a.t \in {"array", "string"} THEN Len(a.v) ELSE 0

\* Array.isArray
IsArray(a) == a.t = "array"

----------------------------------------------------------------------------
(* Characters, numbers and their text *)

DigitChar == <<"0", "1", "2", "3", "4", "5", "6", "7", "8", "9">>
DigitSet == {DigitChar[i] : i \in DOMAIN DigitChar}
DigitVal(c) == (CHOOSE i \in DOMAIN DigitChar : DigitChar[i] = c) - 1

UpperChar == <<"A", "B", "C", "D", "E", "F", "G", "H", "I", "J", "K", "L", "M",
               "N", "O", "P", "Q", "R", "S", "T", "U", "V", "W", "X", "Y", "Z">>
LowerChar == <<"a", "b", "c", "d", "e", "f", "g", "h", "i", "j", "k", "l", "m",
               "n", "o", "p", "q", "r", "s", "t", "u", "v", "w", "x", "y", "z">>

LowerOf(c) ==
    IF \E i \in DOMAIN UpperChar : UpperChar[i] = c
    THEN LowerChar[CHOOSE i \in DOMAIN UpperChar : UpperChar[i] = c]
    ELSE c

\* String.prototype.toLowerCase, on the fragments of a string value
toLowerCase(s) ==
    CASE s.t = "throw" -> s
      [] s.t = "string" -> Str([i \in DOMAIN s.v |-> LowerOf(s.v[i])])
      [] OTHER -> TypeError

\* String.prototype.includes: needle occurs as a contiguous run of hay
includes(hay, needle) ==
    /\ hay.t = "string"
    /\ \E i \in 0..(Len(hay.v) - Len(needle)) :
          \A j \in 1..Len(needle) : hay.v[i + j] = needle[j]

\* the decimal digits of a natural number
RECURSIVE Digits(_)
Digits(n) == IF n < 10 THEN <<DigitChar[n + 1]>>
             ELSE Digits(n \div 10) \o <<DigitChar[(n % 10) + 1]>>

Pad2(n) == <<DigitChar[(n \div 10) + 1], DigitChar[(n % 10) + 1]>>
Pad3(n) == <<DigitChar[(n \div 100) + 1]>> \o Pad2(n % 100)

\* en-US grouping of the integer part
RECURSIVE Grouped(_)
Grouped(n) == IF n < 1000 THEN Digits(n)
              ELSE Grouped(n \div 1000) \o <<",">> \o Pad3(n % 1000)

Abs(n) == IF n < 0 THEN -n ELSE n

\* Number.prototype.toString for a number kept in hundredths
NumberText(n) ==
    LET a == Abs(n)
        frac == a % 100
    IN  (IF n < 0 THEN <<"-">> ELSE <<>>)
        \o Digits(a \div 100)
        \o (IF frac = 0 THEN <<>>
            ELSE IF frac % 10 = 0 THEN <<".", DigitChar[(frac \div 10) + 1]>>
            ELSE <<".">> \o Pad2(frac))

\* the number of blanks of s from position i on
RECURSIVE BlankRun(_, _)
BlankRun(s, i) ==
    IF i \in DOMAIN s /\ s[i] = " " THEN 1 + BlankRun(s, i + 1) ELSE 0

\* The longest numeric prefix of the fragments s, read from position i:
\* [ok, value in hundredths, next position].  phase 0 skips leading blanks
\* and reads the sign, 1 reads the integer digits, 2 and 3 the first and
\* second fraction digit, 4 drops the fraction digits after the second.
RECURSIVE NumericPrefix(_, _, _, _, _, _)
NumericPrefix(s, i, phase, sign, val, digits) ==
    LET c == IF i \in DOMAIN s THEN s[i] ELSE "" IN
    IF phase = 0
    THEN IF c = " " THEN NumericPrefix(s, i + 1, 0, sign, val, digits)
         ELSE IF c = "-" THEN NumericPrefix(s, i + 1, 1, -1, val, digits)
         ELSE IF c = "+" THEN NumericPrefix(s, i + 1, 1, 1, val, digits)
         ELSE NumericPrefix(s, i, 1, sign, val, digits)
    ELSE IF c \in DigitSet
    THEN NumericPrefix(s, i + 1, IF phase \in {1, 4} THEN phase ELSE phase + 1, sign,
                       CASE phase = 1 -> 10 * val + Cents(DigitVal(c))
                         [] phase = 2 -> val + 10 * DigitVal(c)
                         [] phase = 3 -> val + DigitVal(c)
                         [] OTHER -> val,
                       digits + 1)
    ELSE IF c = "." /\ phase = 1 THEN NumericPrefix(s, i + 1, 2, sign, val, digits)
    ELSE [ok |-> digits > 0, val |-> sign * val, next |-> i]

\* the number a numeric prefix stands for
PrefixNumber(p) == IF p.ok THEN Num(p.val) ELSE NaN

\* parseFloat: the numeric prefix, NaN when there is none; it never throws
parseFloat(s) ==
    CASE s.t = "throw" -> s
      [] s.t = "string" -> PrefixNumber(NumericPrefix(s.v, 1, 0, 1, 0, 0))
      [] s.t = "number" -> s
      [] OTHER -> NaN

\* StringToNumber: blank text is 0, a numeral with nothing but blanks after
\* it is its value, anything else is NaN
StringToNumber(s, p) ==
    IF \A i \in DOMAIN s : s[i] = " " THEN N(0)
    ELSE IF p.ok /\ p.next + BlankRun(s, p.next) = Len(s) + 1 THEN Num(p.val)
    ELSE NaN

\* ToNumber, as the relational and arithmetic operators apply it
ToNumber(x) ==
    CASE x.t = "number" -> x
      [] x.t = "string" -> StringToNumber(x.v, NumericPrefix(x.v, 1, 0, 1, 0, 0))
      [] OTHER -> NaN

\* n > k, n >= k, n < k for a converted operand n and a number k of the code
NumGt(n, k) == n.t = "number" /\ n.v > Cents(k)
NumGe(n, k) == n.t = "number" /\ n.v >= Cents(k)
NumLt(n, k) == n.t = "number" /\ n.v < Cents(k)

\* a > k, a >= k, a < k on values; k is a number of the code given in units
Gt(a, k) == NumGt(ToNumber(a), k)
Ge(a, k) == NumGe(ToNumber(a), k)
Lt(a, k) == NumLt(ToNumber(a), k)

\* ToString of a value inside a template literal
RECURSIVE ToText(_)
JoinText(a, sep) ==
    LET RECURSIVE Go(_)
        Go(i) == IF i > Len(a) THEN <<>>
                 ELSE (IF i > 1 THEN <<sep>> ELSE <<>>)
                      \o (IF a[i].t = "undefined" THEN <<>> ELSE ToText(a[i]))
                      \o Go(i + 1)
    IN  Go(1)
ToText(x) ==
    CASE x.t = "string" -> x.v
      [] x.t = "number" -> NumberText(x.v)
      [] x.t = "NaN" -> <<"NaN">>
      [] x.t = "undefined" -> <<"undefined">>
      [] x.t = "boolean" -> IF x.v THEN <<"true">> ELSE <<"false">>
      [] x.t = "array" -> JoinText(x.v, ",")
      [] OTHER -> <<"[object Object]">>

\* a template literal `...${p}...`: the texts of its parts, in order
RECURSIVE ConcatText(_, _)
ConcatText(parts, i) ==
    IF i > Len(parts) THEN <<>> ELSE ToText(parts[i]) \o ConcatText(parts, i + 1)

Tpl(parts) == IF Raised(parts) THEN TypeError ELSE Str(ConcatText(parts, 1))

\* Array.prototype.join of an array value
join(a, sep) ==
    CASE a.t = "throw" -> a
      [] a.t = "array" -> IF Raised(a.v) THEN TypeError ELSE Str(JoinText(a.v, sep))
      [] OTHER -> TypeError

\* Array.prototype.slice(0, n)
slice(a, n) ==
    CASE a.t = "throw" -> a
      [] a.t = "array" -> Arr(SubSeq(a.v, 1, IF Len(a.v) < n THEN Len(a.v) ELSE n))
      [] OTHER -> TypeError

\* Array.prototype.filter and map
filter(a, P(_)) ==
    CASE a.t = "throw" -> a
      [] a.t = "array" -> Arr(SelectSeq(a.v, P))
      [] OTHER -> TypeError

map(a, F(_)) ==
    CASE a.t = "throw" -> a
      [] a.t = "array" -> Arr([i \in DOMAIN a.v |-> F(a.v[i])])
      [] OTHER -> TypeError

\* Array.prototype.find: the first element satisfying P, else undefined
find(a, P(_)) ==
    CASE a.t = "throw" -> a
      [] a.t = "array" ->
            IF \E i \in DOMAIN a.v : P(a.v[i])
            THEN a.v[CHOOSE i \in DOMAIN a.v :
                        P(a.v[i]) /\ \A j \in 1..(i - 1) : ~P(a.v[j])]
            ELSE Undefined
      [] OTHER -> TypeError

----------------------------------------------------------------------------
(* formatCurrency *)

\* Intl.NumberFormat('en-US', {style: 'currency', currency: 'USD',
\* minimumFractionDigits: 2, maximumFractionDigits: 2}).format(x)
IntlCurrencyText(n) ==
    IF n.t = "number"
    THEN Str((IF n.v < 0 THEN <<"-">> ELSE <<>>) \o <<"$">>
             \o Grouped(Abs(n.v) \div 100) \o <<".">> \o Pad2(Abs(n.v) % 100))
    ELSE Str(<<"$", "N", "a", "N">>)

IntlCurrency(x) == IntlCurrencyText(ToNumber(x))

\* amount.replace(/[$,]/g, '')
StripCurrencyMarks(s) == Str(SelectSeq(s.v, LAMBDA c : c \notin {"$", ","}))

\* try { return Intl...format(parseFloat(...)) } catch { return '$0.00' }
formatCurrency_try(parsed) ==
    IF IsThrow(parsed) THEN Str(<<"$", "0", ".", "0", "0">>) ELSE IntlCurrency(parsed)

formatCurrency(amount) ==
    IF IsThrow(amount) THEN amount
    ELSE IF amount.t = "string"
    THEN formatCurrency_try(parseFloat(StripCurrencyMarks(amount)))
    ELSE IntlCurrency(amount)

----------------------------------------------------------------------------
(* The classification tests shared by the composers *)

CharsWire == <<"w", "i", "r", "e">>
CharsAch == <<"a", "c", "h">>
CharsCash == <<"c", "a", "s", "h">>
CharsClosed == <<"c", "l", "o", "s", "e", "d">>
CharsGrandTotal == <<"g", "r", "a", "n", "d", " ", "t", "o", "t", "a", "l">>

\* (t) => t.amount >= 8000 && t.amount < 10000
belowCTRThreshold(t) == Ge(Dot(t, "amount"), 8000) /\ Lt(Dot(t, "amount"), 10000)

\* (t) => (t.type || "").toLowerCase().includes("wire") ||
\*        (t.type || "").toLowerCase().includes("ach")
wireTransactions(t) ==
    \/ includes(toLowerCase(Or(Dot(t, "type"), EmptyStr)), CharsWire)
    \/ includes(toLowerCase(Or(Dot(t, "type"), EmptyStr)), CharsAch)

\* (t) => (t.type || "").toLowerCase().includes("cash")
cashTransactions(t) == includes(toLowerCase(Or(Dot(t, "type"), EmptyStr)), CharsCash)

\* transactions.filter(P).length
FilterLength(a, P(_)) == Length(filter(a, P))

----------------------------------------------------------------------------
(* formatIntroduction *)

\* the ladder with the wire and cash tests in the wrong order
formatIntroduction_activityType_cashFirst(excelData) ==
    LET unusualActivity == Or(Dot(excelData, "unusual_activity"), EmptyObj)
        transactions == Dot(unusualActivity, "transactions")
    IN  IF IsThrow(transactions) THEN TypeError
        ELSE IF Truthy(transactions) /\ Length(transactions) > 0
        THEN IF FilterLength(transactions, belowCTRThreshold) >= 2
             THEN L("structuring")
             ELSE IF FilterLength(transactions, cashTransactions) >= 3
             THEN L("cash activity")
             ELSE IF FilterLength(transactions, wireTransactions) >= 3
             THEN L("wire transfer activity")
             ELSE L("suspicious activity")
        ELSE L("suspicious activity")

formatIntroduction_activityType(excelData) ==
    LET unusualActivity == Or(Dot(excelData, "unusual_activity"), EmptyObj)
        transactions == Dot(unusualActivity, "transactions")
    IN  IF IsThrow(transactions) THEN TypeError
        ELSE IF Truthy(transactions) /\ Length(transactions) > 0
        THEN IF FilterLength(transactions, belowCTRThreshold) >= 2
             THEN L("structuring")
             ELSE IF FilterLength(transactions, wireTransactions) >= 3
             THEN L("wire transfer activity")
             ELSE IF FilterLength(transactions, cashTransactions) >= 3
             THEN L("cash activity")
             ELSE L("suspicious activity")
        ELSE L("suspicious activity")

\* subjects.map((s) => s.name).join(', ') || 'Unknown Subject(s)'
subjectNames(subjects) ==
    Or(join(map(subjects, LAMBDA s : Dot(s, "name")), ", "), L("Unknown Subject(s)"))

formatIntroduction(resp) ==
    LET caseData == Or(Dot(resp, "case_data"), EmptyObj)
        excelData == Or(Dot(resp, "excel_data"), EmptyObj)
        activityType == formatIntroduction_activityType(excelData)
        accountInfo == Or(Dot(caseData, "account_info"), EmptyObj)
        accountNumber == Or(Dot(accountInfo, "account_number"), EmptyStr)
        accountType == Or(Dot(accountInfo, "account_type"), L("account"))
        subjects == Or(Dot(caseData, "subjects"), Arr(<<>>))
        activitySummary == Or(Dot(excelData, "activity_summary"), EmptyObj)
        startDate == Or(Dot(activitySummary, "start_date"), EmptyStr)
        endDate == Or(Dot(activitySummary, "end_date"), EmptyStr)
        totalAmount == formatCurrency(Or(Dot(activitySummary, "total_amount"), N(0)))
    IN  Tpl(<<L("U.S. Bank National Association (USB), is filing this Suspicious Activity Report (SAR) to report "),
              activityType, L(" totaling "), totalAmount,
              L(" derived from credits and debits by "), subjectNames(subjects),
              L(" in "), accountType, L(" account number "), accountNumber,
              L(". The suspicious activity was conducted from "), startDate,
              L(" through "), endDate, L(".")>>)

----------------------------------------------------------------------------
(* formatSARConclusion *)

\* the ladder with the wire/ACH branch taken from two transfers on
formatSARConclusion_activityType_twoWires(excelData) ==
    LET unusualActivity == Or(QDot(excelData, "unusual_activity"), EmptyObj)
        transactions == Or(Dot(unusualActivity, "transactions"), Arr(<<>>))
    IN  IF IsThrow(transactions) THEN TypeError
        ELSE IF Length(transactions) > 0
        THEN IF FilterLength(transactions, belowCTRThreshold) >= 2
             THEN L("structuring")
             ELSE IF FilterLength(transactions, wireTransactions) >= 2
             THEN L("wire transfer activity")
             ELSE IF FilterLength(transactions, cashTransactions) >= 3
             THEN L("cash activity")
             ELSE L("suspicious activity")
        ELSE L("suspicious activity")

formatSARConclusion_activityType(excelData) ==
    LET unusualActivity == Or(QDot(excelData, "unusual_activity"), EmptyObj)
        transactions == Or(Dot(unusualActivity, "transactions"), Arr(<<>>))
    IN  IF IsThrow(transactions) THEN TypeError
        ELSE IF Length(transactions) > 0
        THEN IF FilterLength(transactions, belowCTRThreshold) >= 2
             THEN L("structuring")
             ELSE IF FilterLength(transactions, wireTransactions) >= 3
             THEN L("wire transfer activity")
             ELSE IF FilterLength(transactions, cashTransactions) >= 3
             THEN L("cash activity")
             ELSE L("suspicious activity")
        ELSE L("suspicious activity")

formatSARConclusion(caseData, excelData) ==
    LET caseNumber == Or(QDot(caseData, "case_number"), EmptyStr)
        accountInfo == Or(QDot(caseData, "account_info"), EmptyObj)
        accountNumber == Or(Dot(accountInfo, "account_number"), EmptyStr)
        subjects == Or(QDot(caseData, "subjects"), Arr(<<>>))
        activitySummary == Or(QDot(excelData, "activity_summary"), EmptyObj)
        startDate == Or(Dot(activitySummary, "start_date"), EmptyStr)
        endDate == Or(Dot(activitySummary, "end_date"), EmptyStr)
        totalAmount == formatCurrency(Or(Dot(activitySummary, "total_amount"), N(0)))
        activityType == formatSARConclusion_activityType(excelData)
    IN  Tpl(<<L("In conclusion, USB is reporting "), totalAmount, L(" in "), activityType,
              L(" which gave the appearance of suspicious activity and were conducted by "),
              subjectNames(subjects), L(" in account number "), accountNumber,
              L(" from "), startDate, L(" through "), endDate,
              L(". USB will conduct a follow-up review to monitor for continuing activity. All requests for supporting documentation can be sent to lawenforcementrequests@usbank.com referencing AML case number "),
              caseNumber, L(".")>>)

----------------------------------------------------------------------------
(* formatTransactionSamples *)

\* one rendered sample: ` ${date}: ${amount}`, ` (${txnType})`, ` - ${desc}`
\* and the closing ';' or '.'
SampleSegment(txn, last) ==
    LET date == Or(Dot(txn, "date"), EmptyStr)
        amount == formatCurrency(Or(Dot(txn, "amount"), N(0)))
        txnType == Or(Dot(txn, "type"), EmptyStr)
        desc == Or(Dot(txn, "description"), EmptyStr)
    IN  Tpl(<<L(" "), date, L(": "), amount>>
            \o (IF Truthy(txnType) THEN <<L(" ("), txnType, L(")")>> ELSE <<>>)
            \o (IF Truthy(desc) THEN <<L(" - "), desc>> ELSE <<>>)
            \o <<IF last THEN L(".") ELSE L(";")>>)

Min(a, b) == IF a < b THEN a ELSE b

\* the loop for (let i = 0; i < sampleCount; i++) samplesText += ...
RECURSIVE SamplesLoop(_, _, _)
SamplesLoop(transactions, i, sampleCount) ==
    IF i >= sampleCount THEN <<>>
    ELSE <<SampleSegment(Idx(transactions, i), ~(i < sampleCount - 1))>>
         \o SamplesLoop(transactions, i + 1, sampleCount)

\* the samples text with the loop running to the end of the list
SamplesText_noCap(transactions) ==
    IF IsThrow(transactions) THEN TypeError
    ELSE IF Length(transactions) = 0
    THEN L("No suspicious transaction samples available.")
    ELSE Tpl(<<L("A sample of the suspicious transactions includes:")>>
             \o SamplesLoop(transactions, 0, Length(transactions)))

\* the body both revisions of formatTransactionSamples share
SamplesText(transactions) ==
    IF IsThrow(transactions) THEN TypeError
    ELSE IF Length(transactions) = 0
    THEN L("No suspicious transaction samples available.")
    ELSE Tpl(<<L("A sample of the suspicious transactions includes:")>>
             \o SamplesLoop(transactions, 0, Min(5, Length(transactions))))

\* sar-narrative-mapper.ts: formatTransactionSamples(excelData)
formatTransactionSamples(excelData) ==
    LET unusualActivity == Or(QDot(excelData, "unusual_activity"), EmptyObj)
        transactions == Or(Dot(unusualActivity, "transactions"), Arr(<<>>))
    IN  SamplesText(transactions)

\* types/index.ts, 5-section revision: formatTransactionSamples(transactions)
formatTransactionSamples_list(transactions) ==
    IF IsThrow(transactions) THEN TypeError
    ELSE IF ~Truthy(transactions) \/ Length(transactions) = 0
    THEN L("No suspicious transaction samples available.")
    ELSE SamplesText(transactions)

----------------------------------------------------------------------------
(* Subject resolution *)

\* (s) => s.is_primary
is_primary(s) == Truthy(Dot(s, "is_primary"))

\* the resolution that takes the subject at index 0 whatever is flagged
primarySubjectName_firstOnly(subjects) ==
    Or(QDot(QIdx(subjects, 0), "name"), L("Unknown Subject"))

\* subjects?.find((s) => s.is_primary)?.name ||
\*   (subjects?.[0]?.name || 'Unknown Subject')
primarySubjectName(subjects) ==
    LET found == IF subjects.t = "undefined" THEN Undefined
                 ELSE find(subjects, is_primary)
    IN  Or(QDot(found, "name"),
           Or(QDot(QIdx(subjects, 0), "name"), L("Unknown Subject")))

----------------------------------------------------------------------------
(* formatInvestigationSummary *)

IndicatorsStructuring == L("- Multiple cash transactions just below CTR threshold\n- Pattern of transactions designed to evade reporting requirements")
IndicatorsWire == L("- High volume of wire/ACH transactions\n- Transfers to/from high-risk jurisdictions or entities")
IndicatorsCash == L("- Large cash deposits without apparent business purpose\n- Cash deposits followed by wire transfers")
IndicatorsDefault == L("- Unusual transaction patterns inconsistent with customer profile\n- Transactions lacking legitimate business purpose")

\* the pair (activityType, suspiciousIndicators) the ladder assigns
formatInvestigationSummary_classify(excelData) ==
    LET unusualActivity == Dot(excelData, "unusual_activity")
        transactions == Dot(unusualActivity, "transactions")
        generic == [activityType |-> L("suspicious activity"), suspiciousIndicators |-> EmptyStr]
    IN  IF Truthy(unusualActivity)
        THEN IF Truthy(transactions) /\ Length(transactions) > 0
             THEN IF FilterLength(transactions, belowCTRThreshold) >= 2
                  THEN [activityType |-> L("structuring"),
                        suspiciousIndicators |-> IndicatorsStructuring]
                  ELSE IF FilterLength(transactions, wireTransactions) >= 3
                  THEN [activityType |-> L("unusual wire/ACH activity"),
                        suspiciousIndicators |-> IndicatorsWire]
                  ELSE IF FilterLength(transactions, cashTransactions) >= 3
                  THEN [activityType |-> L("unusual cash activity"),
                        suspiciousIndicators |-> IndicatorsCash]
                  ELSE generic
             ELSE generic
        ELSE generic

formatInvestigationSummary(excelData, caseData) ==
    IF ~Truthy(excelData) \/ ~Truthy(caseData) THEN EmptyStr
    ELSE
    LET accountInfo == Or(Dot(caseData, "account_info"), EmptyObj)
        accountNumber == Or(Dot(accountInfo, "account_number"), EmptyStr)
        subjects == Or(Dot(caseData, "subjects"), Arr(<<>>))
        primarySubject == primarySubjectName(subjects)
        transactionSummary == Or(Dot(excelData, "transaction_summary"), EmptyObj)
        totalCredits == formatCurrency(Or(Dot(transactionSummary, "total_credits"), N(0)))
        totalDebits == formatCurrency(Or(Dot(transactionSummary, "total_debits"), N(0)))
        activitySummary == Or(Dot(excelData, "activity_summary"), EmptyObj)
        startDate == Or(Dot(activitySummary, "start_date"), EmptyStr)
        endDate == Or(Dot(activitySummary, "end_date"), EmptyStr)
        totalAmount == formatCurrency(Or(Dot(activitySummary, "total_amount"), N(0)))
        cls == formatInvestigationSummary_classify(excelData)
        suspiciousIndicators ==
            IF ~Truthy(cls.suspiciousIndicators) THEN IndicatorsDefault
            ELSE cls.suspiciousIndicators
    IN  Tpl(<<L("Account "), accountNumber, L(" for "), primarySubject, L(" showed "),
              cls.activityType, L(" during the period from "), startDate, L(" to "),
              endDate, L(".\n\nTransaction Summary:\n- Total Credits: "), totalCredits,
              L("\n- Total Debits: "), totalDebits,
              L("\n- Total Suspicious Amount: "), totalAmount,
              L("\n\nSuspicious Activity Indicators:\n"), suspiciousIndicators,
              L("\n\nThis activity appears unusual based on the customer's known profile, business type, and previous transaction history. The pattern of transactions suggests potential money laundering or other illicit financial activity.")>>)

----------------------------------------------------------------------------
(* formatRecommendationConclusion *)

\* the composer reading case_number without the '' default
formatRecommendationConclusion_noDefault(resp) ==
    LET caseData == Or(Dot(resp, "case_data"), EmptyObj)
        excelData == Or(Dot(resp, "excel_data"), EmptyObj)
        caseNumber == Dot(caseData, "case_number")
        accountInfo == Or(Dot(caseData, "account_info"), EmptyObj)
        accountNumber == Or(Dot(accountInfo, "account_number"), EmptyStr)
        subjects == Or(Dot(caseData, "subjects"), Arr(<<>>))
        activitySummary == Or(Dot(excelData, "activity_summary"), EmptyObj)
        startDate == Or(Dot(activitySummary, "start_date"), EmptyStr)
        endDate == Or(Dot(activitySummary, "end_date"), EmptyStr)
        totalAmount == formatCurrency(Or(Dot(activitySummary, "total_amount"), N(0)))
    IN  Tpl(<<L("Based on the investigation findings, a SAR filing is recommended for case "),
              caseNumber, L(". \n\nThe SAR will report "), totalAmount,
              L(" in suspicious activity conducted through account "), accountNumber,
              L(" by "), subjectNames(subjects), L(" from "), startDate, L(" through "),
              endDate,
              L(".\n\nThe activity appears deliberately structured to avoid detection and reporting requirements, and is inconsistent with the stated purpose of the account and the customer's known business activities.")>>)

formatRecommendationConclusion(resp) ==
    LET caseData == Or(Dot(resp, "case_data"), EmptyObj)
        excelData == Or(Dot(resp, "excel_data"), EmptyObj)
        caseNumber == Or(Dot(caseData, "case_number"), EmptyStr)
        accountInfo == Or(Dot(caseData, "account_info"), EmptyObj)
        accountNumber == Or(Dot(accountInfo, "account_number"), EmptyStr)
        subjects == Or(Dot(caseData, "subjects"), Arr(<<>>))
        activitySummary == Or(Dot(excelData, "activity_summary"), EmptyObj)
        startDate == Or(Dot(activitySummary, "start_date"), EmptyStr)
        endDate == Or(Dot(activitySummary, "end_date"), EmptyStr)
        totalAmount == formatCurrency(Or(Dot(activitySummary, "total_amount"), N(0)))
    IN  Tpl(<<L("Based on the investigation findings, a SAR filing is recommended for case "),
              caseNumber, L(". \n\nThe SAR will report "), totalAmount,
              L(" in suspicious activity conducted through account "), accountNumber,
              L(" by "), subjectNames(subjects), L(" from "), startDate, L(" through "),
              endDate,
              L(".\n\nThe activity appears deliberately structured to avoid detection and reporting requirements, and is inconsistent with the stated purpose of the account and the customer's known business activities.")>>)

----------------------------------------------------------------------------
(* formatCTAInfo *)

CharsDoctor == <<"d", "o", "c", "t", "o", "r">>
CharsDentist == <<"d", "e", "n", "t", "i", "s", "t">>
CharsAttorney == <<"a", "t", "t", "o", "r", "n", "e", "y">>
CharsLawyer == <<"l", "a", "w", "y", "e", "r">>

\* caseData.accounts?.length
QLength(a) == IF a.t = "undefined" THEN Undefined
              ELSE IF a.t \in {"array", "string"} THEN N(Len(a.v)) ELSE Undefined

\* the composer with the legal test before the healthcare test
formatCTAInfo_legalFirst(caseData, excelData) ==
    LET subjects == Or(QDot(caseData, "subjects"), Arr(<<>>))
    IN  IF Length(subjects) = 0 THEN EmptyStr
        ELSE
        LET primarySubject == Or(find(subjects, is_primary), Or(Idx(subjects, 0), EmptyObj))
            subjectName == Or(Dot(primarySubject, "name"), L("Unknown Subject"))
            occupation == Or(Dot(primarySubject, "occupation"), L("Unknown Occupation"))
            employer == Or(Dot(primarySubject, "employer"), L("Unknown Employer"))
            businessNature ==
                IF IsThrow(toLowerCase(occupation)) THEN TypeError
                ELSE IF includes(toLowerCase(occupation), CharsAttorney)
                        \/ includes(toLowerCase(occupation), CharsLawyer)
                THEN L("Legal Professional")
                ELSE IF includes(toLowerCase(occupation), CharsDoctor)
                        \/ includes(toLowerCase(occupation), CharsDentist)
                THEN L("Healthcare Professional")
                ELSE L("Unknown")
        IN  Tpl(<<L("Subject Name: "), subjectName, L("\nOccupation: "), occupation,
                  L("\nEmployer: "), employer, L("\nNature of Business: "), businessNature,
                  L("\n\nTransaction Patterns:\nBased on the transaction analysis, this customer typically engages in standard banking activities including direct deposits, ATM withdrawals, and debit card purchases. The suspicious activity identified represents a significant deviation from established patterns.\n\nThe customer has been with the bank since "),
                  Or(QDot(Dot(caseData, "account_info"), "open_date"), L("Unknown")),
                  L(" and maintains "), Or(QLength(Dot(caseData, "accounts")), N(1)),
                  L(" account(s).\n\nCustomer Risk Assessment: Medium-High Risk due to the unusual transaction patterns identified in this investigation.")>>)

formatCTAInfo(caseData, excelData) ==
    LET subjects == Or(QDot(caseData, "subjects"), Arr(<<>>))
    IN  IF Length(subjects) = 0 THEN EmptyStr
        ELSE
        LET primarySubject == Or(find(subjects, is_primary), Or(Idx(subjects, 0), EmptyObj))
            subjectName == Or(Dot(primarySubject, "name"), L("Unknown Subject"))
            occupation == Or(Dot(primarySubject, "occupation"), L("Unknown Occupation"))
            employer == Or(Dot(primarySubject, "employer"), L("Unknown Employer"))
            businessNature ==
                IF IsThrow(toLowerCase(occupation)) THEN TypeError
                ELSE IF includes(toLowerCase(occupation), CharsDoctor)
                   \/ includes(toLowerCase(occupation), CharsDentist)
                THEN L("Healthcare Professional")
                ELSE IF includes(toLowerCase(occupation), CharsAttorney)
                        \/ includes(toLowerCase(occupation), CharsLawyer)
                THEN L("Legal Professional")
                ELSE L("Unknown")
        IN  Tpl(<<L("Subject Name: "), subjectName, L("\nOccupation: "), occupation,
                  L("\nEmployer: "), employer, L("\nNature of Business: "), businessNature,
                  L("\n\nTransaction Patterns:\nBased on the transaction analysis, this customer typically engages in standard banking activities including direct deposits, ATM withdrawals, and debit card purchases. The suspicious activity identified represents a significant deviation from established patterns.\n\nThe customer has been with the bank since "),
                  Or(QDot(Dot(caseData, "account_info"), "open_date"), L("Unknown")),
                  L(" and maintains "), Or(QLength(Dot(caseData, "accounts")), N(1)),
                  L(" account(s).\n\nCustomer Risk Assessment: Medium-High Risk due to the unusual transaction patterns identified in this investigation.")>>)

----------------------------------------------------------------------------
(* formatRetainClose *)

RetainText == L("Account Relationship Status: RETAIN\n\nDespite the filing of this SAR, it is recommended to retain the customer relationship at this time while implementing enhanced monitoring for the account.\n\nJustification:\n- This appears to be an isolated incident\n- Customer has a long-standing relationship with the bank\n- The suspicious activity has been properly documented and reported\n- Continued monitoring will provide additional insight into any potential future suspicious behavior")

\* the composer reading caseData.account_info without the optional chain
formatRetainClose_noOptionalChain(caseData) ==
    LET accountInfo == Or(Dot(caseData, "account_info"), EmptyObj)
        accountStatus == Or(Dot(accountInfo, "status"), EmptyStr)
        isAccountClosed == includes(toLowerCase(accountStatus), CharsClosed)
    IN  IF IsThrow(toLowerCase(accountStatus)) THEN TypeError
        ELSE IF isAccountClosed
        THEN Tpl(<<L("Account Relationship Status: CLOSED\n\nThe customer relationship has already been closed as of "),
                   Or(Dot(accountInfo, "close_date"), L("Unknown Date")),
                   L(".\n\nClosure Reason: "),
                   Or(Dot(accountInfo, "closure_reason"), L("Suspicious Activity"))>>)
        ELSE RetainText

formatRetainClose(caseData) ==
    LET accountInfo == Or(QDot(caseData, "account_info"), EmptyObj)
        accountStatus == Or(Dot(accountInfo, "status"), EmptyStr)
        isAccountClosed == includes(toLowerCase(accountStatus), CharsClosed)
    IN  IF IsThrow(toLowerCase(accountStatus)) THEN TypeError
        ELSE IF isAccountClosed
        THEN Tpl(<<L("Account Relationship Status: CLOSED\n\nThe customer relationship has already been closed as of "),
                   Or(Dot(accountInfo, "close_date"), L("Unknown Date")),
                   L(".\n\nClosure Reason: "),
                   Or(Dot(accountInfo, "closure_reason"), L("Suspicious Activity"))>>)
        ELSE RetainText

----------------------------------------------------------------------------
(* formatSubjectAccountInfo *)

\* the text one pass of subjects.forEach appends
SubjectParts(subject, index, n) ==
    LET name == Or(Dot(subject, "name"), L("Unknown Subject"))
        occupation == Or(Dot(subject, "occupation"), EmptyStr)
        employer == Or(Dot(subject, "employer"), EmptyStr)
        relationship == Or(Dot(subject, "account_relationship"), EmptyStr)
        address == Or(Dot(subject, "address"), EmptyStr)
    IN  <<name>>
        \o (IF Truthy(occupation) \/ Truthy(employer)
            THEN <<L(" is employed as a "), occupation>>
                 \o (IF Truthy(employer) THEN <<L(" at "), employer>> ELSE <<>>)
                 \o <<L(". ")>>
            ELSE <<L(". ")>>)
        \o (IF Truthy(relationship)
            THEN <<name, L(" is listed as "), relationship, L(" on the account. ")>>
            ELSE <<>>)
        \o (IF Truthy(address) THEN <<L("Address: "), address, L(". ")>> ELSE <<>>)
        \o (IF index < n - 1 THEN <<L("\n\n")>> ELSE <<>>)

RECURSIVE SubjectsLoop(_, _)
SubjectsLoop(subjects, index) ==
    IF index >= Length(subjects) THEN <<>>
    ELSE SubjectParts(Idx(subjects, index), index, Length(subjects))
         \o SubjectsLoop(subjects, index + 1)

formatSubjectAccountInfo_accountText(accountInfo) ==
    LET accountNumber == Or(Dot(accountInfo, "account_number"), EmptyStr)
        accountType == Or(Dot(accountInfo, "account_type"), EmptyStr)
        openDate == Or(Dot(accountInfo, "open_date"), EmptyStr)
        closeDate == Or(Dot(accountInfo, "close_date"), EmptyStr)
        status == Or(Dot(accountInfo, "status"), EmptyStr)
        isOpen == ~Truthy(closeDate) \/ ~includes(toLowerCase(status), CharsClosed)
    IN  IF IsThrow(closeDate) \/ (Truthy(closeDate) /\ IsThrow(toLowerCase(status)))
        THEN <<TypeError>>
        ELSE <<L("\n\nPersonal "), accountType, L(" account "), accountNumber,
               L(" was opened on "), openDate>>
             \o (IF isOpen THEN <<L(" and remains open.")>>
                 ELSE <<L(" and was closed on "), closeDate, L(".")>>)

formatSubjectAccountInfo(caseData) ==
    LET subjects == Or(QDot(caseData, "subjects"), Arr(<<>>))
        accountInfo == Or(QDot(caseData, "account_info"), EmptyObj)
    IN  Tpl(SubjectsLoop(subjects, 0) \o formatSubjectAccountInfo_accountText(accountInfo))

----------------------------------------------------------------------------
(* formatSuspiciousActivity *)

\* (item) => `${item.type} (${formatCurrency(item.amount)}, ${item.count} transactions)`
BreakdownItemText(item) ==
    Tpl(<<Dot(item, "type"), L(" ("), formatCurrency(Dot(item, "amount")), L(", "),
          Dot(item, "count"), L(" transactions)")>>)

formatSuspiciousActivity_indicators(transactions) ==
    LET below == FilterLength(transactions, belowCTRThreshold)
        wire == FilterLength(transactions, wireTransactions)
        cash == FilterLength(transactions, cashTransactions)
        picked ==
            (IF below >= 2
             THEN <<L("- Multiple cash transactions just below CTR threshold\n"),
                    L("- Pattern of transactions designed to evade reporting requirements\n"),
                    L("- Structured transactions to avoid detection\n")>>
             ELSE <<>>)
            \o (IF wire >= 3
                THEN <<L("- High volume of wire/ACH transactions\n"),
                       L("- Transfers to/from high-risk jurisdictions or entities\n"),
                       L("- Rapid movement of funds through the account\n")>>
                ELSE <<>>)
            \o (IF cash >= 3
                THEN <<L("- Large cash deposits without apparent business purpose\n"),
                       L("- Cash deposits followed by immediate withdrawals\n"),
                       L("- No legitimate business reason for cash activity volume\n")>>
                ELSE <<>>)
    IN  IF picked = <<>>
        THEN <<L("- Unusual transaction patterns inconsistent with customer profile\n"),
               L("- Transactions lacking legitimate business purpose\n"),
               L("- Activity inconsistent with stated account purpose\n")>>
        ELSE picked

formatSuspiciousActivity_patterns(transactionSummary) ==
    LET creditBreakdown == Or(Dot(transactionSummary, "credit_breakdown"), Arr(<<>>))
        debitBreakdown == Or(Dot(transactionSummary, "debit_breakdown"), Arr(<<>>))
    IN  (IF Length(creditBreakdown) > 0
         THEN <<L("The primary credit transaction types were "),
                join(map(slice(creditBreakdown, 3), BreakdownItemText), ", "), L(". ")>>
         ELSE <<>>)
        \o (IF Length(debitBreakdown) > 0
            THEN <<L("The primary debit transaction types were "),
                   join(map(slice(debitBreakdown, 3), BreakdownItemText), ", "), L(".")>>
            ELSE <<>>)

formatSuspiciousActivity(excelData, caseData) ==
    LET accountInfo == Or(QDot(caseData, "account_info"), EmptyObj)
        accountNumber == Or(Dot(accountInfo, "account_number"), EmptyStr)
        activitySummary == Or(QDot(excelData, "activity_summary"), EmptyObj)
        startDate == Or(Dot(activitySummary, "start_date"), EmptyStr)
        endDate == Or(Dot(activitySummary, "end_date"), EmptyStr)
        transactionSummary == Or(QDot(excelData, "transaction_summary"), EmptyObj)
        totalCredits == formatCurrency(Or(Dot(transactionSummary, "total_credits"), N(0)))
        totalDebits == formatCurrency(Or(Dot(transactionSummary, "total_debits"), N(0)))
        unusualActivity == Or(QDot(excelData, "unusual_activity"), EmptyObj)
        transactions == Or(Dot(unusualActivity, "transactions"), Arr(<<>>))
    IN  Tpl(<<L("The account activity for "), accountNumber, L(" from "), startDate,
              L(" to "), endDate, L(" included total credits of "), totalCredits,
              L(" and total debits of "), totalDebits, L(".\n\n")>>
            \o formatSuspiciousActivity_patterns(transactionSummary)
            \o <<L("\n\nThe AML risks associated with these transactions are as follows:\n")>>
            \o formatSuspiciousActivity_indicators(transactions)
            \o <<L("\n\nThis activity appears unusual based on the customer's known profile, business type, and previous transaction history.")>>)

----------------------------------------------------------------------------
(* mapBackendDataToSections: the field resolution both mapper revisions share *)

\* response.case_data || {} and response.excel_data || {}
caseDataOf(resp) == Or(Dot(resp, "case_data"), EmptyObj)
excelDataOf(resp) == Or(Dot(resp, "excel_data"), EmptyObj)

\* excelData.word_control_macro || response.wordControl || {}
wordControlOf(resp) ==
    Or(Dot(excelDataOf(resp), "word_control_macro"), Or(Dot(resp, "wordControl"), EmptyObj))

\* excelData.transactions_summary?.category_summary || {}
categoryDataOf(excelData) ==
    Or(QDot(Dot(excelData, "transactions_summary"), "category_summary"), EmptyObj)

\* excelData.transactions_summary?.category_summary || excelData.transaction_summary || {}
transactionSummaryOf(excelData) ==
    Or(QDot(Dot(excelData, "transactions_summary"), "category_summary"),
       Or(Dot(excelData, "transaction_summary"), EmptyObj))

\* (row) => row["Row Labels"] && typeof row["Row Labels"] === 'string' &&
\*          row["Row Labels"].toLowerCase().includes('grand total')
isGrandTotalRow(row) ==
    /\ Truthy(Dot(row, "Row Labels"))
    /\ Dot(row, "Row Labels").t = "string"
    /\ includes(toLowerCase(Dot(row, "Row Labels")), CharsGrandTotal)

\* the resolution with the grand-total row consulted last instead of first
resolveTotal_tableLast(excelData, tableKey, totalKey) ==
    LET categoryData == categoryDataOf(excelData)
        transactionSummary == transactionSummaryOf(excelData)
        activitySummaryTables == Or(Dot(excelData, "activity_summary_tables"), EmptyObj)
        summary == Or(Dot(activitySummaryTables, tableKey), Arr(<<>>))
        grandTotal == find(summary, isGrandTotalRow)
    IN  Or(Dot(categoryData, totalKey),
           Or(Dot(transactionSummary, totalKey),
              IF Truthy(grandTotal) THEN Or(Dot(grandTotal, "Total"), N(0)) ELSE N(0)))

\* totalCredits (tableKey credit_summary, totalKey total_credits) and
\* totalDebits (debit_summary, total_debits)
resolveTotal(excelData, tableKey, totalKey) ==
    LET categoryData == categoryDataOf(excelData)
        transactionSummary == transactionSummaryOf(excelData)
        activitySummaryTables == Or(Dot(excelData, "activity_summary_tables"), EmptyObj)
        summary == Or(Dot(activitySummaryTables, tableKey), Arr(<<>>))
        grandTotal == find(summary, isGrandTotalRow)
    IN  IF Truthy(grandTotal)
        THEN Or(Dot(grandTotal, "Total"), N(0))
        ELSE Or(Dot(categoryData, totalKey), Or(Dot(transactionSummary, totalKey), N(0)))

\* Array.prototype.sort((a, b) => b[k] - a[k]): descending by k, stable
sortDescending(a, k) ==
    LET val(e) == ToNumber(Dot(e, k)).v
        RECURSIVE Go(_, _)
        Go(i, acc) ==
            IF i > Len(a.v) THEN acc
            ELSE LET x == a.v[i]
                     pos == Cardinality({j \in DOMAIN acc : val(acc[j]) >= val(x)})
                 IN  Go(i + 1, SubSeq(acc, 1, pos) \o <<x>> \o SubSeq(acc, pos + 1, Len(acc)))
    IN  Arr(Go(1, <<>>))

\* .sort() called on the categories themselves, without the copy that
\* .filter() makes
sortReceiver_categories(categories, k) == [input |-> TRUE, value |-> categories]

\* The array .sort() is called on: categories.filter((c) => c[k] > 0), an
\* array made by the call and not one of the bundle
sortReceiver(categories, k) ==
    [input |-> FALSE, value |-> filter(categories, LAMBDA c : Gt(Dot(c, k), 0))]

\* categories.filter((c) => c[k] > 0).sort((a, b) => b[k] - a[k]).slice(0, 3)
topCategories(categories, k) ==
    slice(sortDescending(sortReceiver(categories, k).value, k), 3)

\* Array.prototype.sort works in place: what the bundle's categories hold
\* once the sort by k has run on its receiver
categoriesAfterSort(categories, k) ==
    IF sortReceiver(categories, k).input
    THEN sortDescending(sortReceiver(categories, k).value, k)
    ELSE categories

\* the bundle with cats in place of
\* excel_data.transactions_summary.category_summary.categories
WithCategories(resp, cats) ==
    Obj([resp.v EXCEPT !["excel_data"] =
        Obj([@.v EXCEPT !["transactions_summary"] =
            Obj([@.v EXCEPT !["category_summary"] =
                Obj([@.v EXCEPT !["categories"] = cats])])])])

\* The bundle after the call.  The sorts of the credit and of the debit
\* categories are the only operations of the mappers that write an array
\* in place; every other step reads the bundle (find, filter, map, slice,
\* forEach, join) or assigns a local.
mapBackendDataToSections_after(resp) ==
    IF Truthy(Dot(categoryDataOf(excelDataOf(resp)), "categories"))
       /\ Length(Dot(categoryDataOf(excelDataOf(resp)), "categories")) > 0
    THEN WithCategories(resp,
            categoriesAfterSort(
                categoriesAfterSort(Dot(categoryDataOf(excelDataOf(resp)), "categories"),
                                    "Credits ($ Total)"),
                "Debits ($ Total)"))
    ELSE resp

\* (c) => `${c["Custom Language Transaction Category"]} (${formatCurrency(c[k])},
\*         ${c[n]} transactions)`
CategoryItemText(c, k, n) ==
    Tpl(<<Dot(c, "Custom Language Transaction Category"), L(" ("),
          formatCurrency(Dot(c, k)), L(", "), Dot(c, n), L(" transactions)")>>)

\* the text accumulated in transactionTypes
transactionTypesOf(excelData) ==
    LET categoryData == categoryDataOf(excelData)
        transactionSummary == transactionSummaryOf(excelData)
        categories == Dot(categoryData, "categories")
    IN  IF Truthy(categories) /\ Length(categories) > 0
        THEN LET creditCategories == topCategories(categories, "Credits ($ Total)")
                 debitCategories == topCategories(categories, "Debits ($ Total)")
             IN  Tpl((IF Length(creditCategories) > 0
                      THEN <<L("The primary credit transaction types were "),
                             join(map(creditCategories,
                                      LAMBDA c : CategoryItemText(c, "Credits ($ Total)",
                                                                  "Credits (# Transactions)")),
                                  ", "),
                             L(". ")>>
                      ELSE <<>>)
                     \o (IF Length(debitCategories) > 0
                         THEN <<L("The primary debit transaction types were "),
                                join(map(debitCategories,
                                         LAMBDA c : CategoryItemText(c, "Debits ($ Total)",
                                                                     "Debits (# Transactions)")),
                                     ", "),
                                L(".")>>
                         ELSE <<>>))
        ELSE IF Truthy(Dot(transactionSummary, "credit_breakdown"))
                /\ Truthy(Dot(transactionSummary, "debit_breakdown"))
        THEN LET creditBreakdown == slice(Dot(transactionSummary, "credit_breakdown"), 3)
                 debitBreakdown == slice(Dot(transactionSummary, "debit_breakdown"), 3)
             IN  Tpl((IF Length(creditBreakdown) > 0
                      THEN <<L("The primary credit transaction types were "),
                             join(map(creditBreakdown, BreakdownItemText), ", "), L(". ")>>
                      ELSE <<>>)
                     \o (IF Length(debitBreakdown) > 0
                         THEN <<L("The primary debit transaction types were "),
                                join(map(debitBreakdown, BreakdownItemText), ", "), L(".")>>
                         ELSE <<>>))
        ELSE EmptyStr

\* wordControl.key_values?.[key]
keyValue(wordControl, key) == QDot(Dot(wordControl, "key_values"), key)

\* startDate and endDate: wordControl.key_values?.[label] || activitySummary[field] || ''
dateOf(resp, label, field) ==
    LET activitySummary == Or(Dot(excelDataOf(resp), "activity_summary"), EmptyObj)
    IN  Or(keyValue(wordControlOf(resp), label), Or(Dot(activitySummary, field), EmptyStr))

\* caseInfo.caseNumber and caseInfo.accountNumber
caseInfoCaseNumber(resp) ==
    Or(keyValue(wordControlOf(resp), "Case Number"),
       Or(Dot(caseDataOf(resp), "case_number"), EmptyStr))
caseInfoAccountNumber(resp) ==
    Or(QDot(Dot(caseDataOf(resp), "account_info"), "account_number"), EmptyStr)

\* subjectInfo, from the Word Control subjects table or the case subjects
subjectInfoOf(resp) ==
    LET subjects == Or(Dot(wordControlOf(resp), "subjects_table"), Arr(<<>>))
        caseSubjects == Dot(caseDataOf(resp), "subjects")
        tableText(subject) ==
            Tpl(<<Dot(subject, "Case Subject")>>
                \o (IF Truthy(Dot(subject, "Primary Party Key"))
                    THEN <<L(" (Party Key: "), Dot(subject, "Primary Party Key"), L(")")>>
                    ELSE <<>>))
        caseText(subject) ==
            Tpl(<<Dot(subject, "name")>>
                \o (IF Truthy(Dot(subject, "occupation")) \/ Truthy(Dot(subject, "employer"))
                    THEN <<L(" is employed as a "), Or(Dot(subject, "occupation"), EmptyStr)>>
                         \o (IF Truthy(Dot(subject, "employer"))
                             THEN <<L(" at "), Dot(subject, "employer")>> ELSE <<>>)
                         \o <<L(". ")>>
                    ELSE <<>>)
                \o (IF Truthy(Dot(subject, "account_relationship"))
                    THEN <<Dot(subject, "name"), L(" is listed as "),
                           Dot(subject, "account_relationship"), L(" on the account.")>>
                    ELSE <<>>))
    IN  IF Length(subjects) > 0
        THEN join(map(subjects, tableText), "\n\n")
        ELSE Or(IF caseSubjects.t = "undefined" THEN Undefined
                ELSE join(map(caseSubjects, caseText), "\n\n"),
                EmptyStr)

----------------------------------------------------------------------------
(* The composers of the 5-section revision (types/index.ts) *)

RECURSIVE PriorCasesLoop(_, _)
PriorCasesLoop(priorCases, index) ==
    IF index >= Length(priorCases) THEN <<>>
    ELSE LET priorCase == Idx(priorCases, index)
             caseNumber == Or(Dot(priorCase, "case_number"), EmptyStr)
             filingDate == Or(Dot(priorCase, "filing_date"), L("Unknown filing date"))
             summary == Or(Dot(priorCase, "summary"), L("No summary available"))
             alertIds == Or(Dot(priorCase, "alert_id"), Arr(<<>>))
             reviewPeriod == Or(Dot(priorCase, "review_period"), EmptyObj)
         IN  <<L("Case # "), caseNumber, L(": Alerting account # reviewed from "),
               Or(Dot(reviewPeriod, "start"), EmptyStr), L(" to "),
               Or(Dot(reviewPeriod, "end"), EmptyStr), L(" due to "),
               join(alertIds, ", "), L(".\n"),
               L("SAR filed on "), filingDate, L(": "), summary, L("\n\n")>>
             \o PriorCasesLoop(priorCases, index + 1)

\* the composer with the loop starting at the second prior case
formatPriorCases_skipFirst(priorCases) ==
    IF ~Truthy(priorCases) \/ Length(priorCases) = 0
    THEN L("No prior SARs were identified for the subjects or account.")
    ELSE Tpl(PriorCasesLoop(priorCases, 1))

formatPriorCases(priorCases) ==
    IF ~Truthy(priorCases) \/ Length(priorCases) = 0
    THEN L("No prior SARs were identified for the subjects or account.")
    ELSE Tpl(PriorCasesLoop(priorCases, 0))

\* the text one pass of subjects.forEach appends in formatAccountSubjectInfo
AccountSubjectParts(subject) ==
    <<Or(Dot(subject, "name"), L("Unknown subject")), L(" is employed as a "),
      Or(Dot(subject, "occupation"), EmptyStr), L(" at "),
      Or(Dot(subject, "employer"), EmptyStr), L(". ")>>
    \o (IF Truthy(Dot(subject, "account_relationship"))
        THEN <<Dot(subject, "name"), L(" is listed as "),
               Dot(subject, "account_relationship"), L(" on the account. ")>>
        ELSE <<>>)
    \o (IF Truthy(Dot(subject, "nationality"))
           /\ Dot(subject, "nationality") # L("US")
           /\ Dot(subject, "nationality") # L("USA")
        THEN <<L("\n\nThe following foreign nationalities and identifications were identified for "),
               Dot(subject, "name"), L(": "), Dot(subject, "nationality"), L(", "),
               L("[INVESTIGATOR TO INSERT ID TYPE] # [INVESTIGATOR TO INSERT ID NUMBER] issued on [ISSUE DATE] and expires on [EXPIRATION DATE].")>>
        ELSE <<>>)
    \o <<L("\n\n")>>

RECURSIVE AccountSubjectsLoop(_, _)
AccountSubjectsLoop(subjects, index) ==
    IF index >= Length(subjects) THEN <<>>
    ELSE AccountSubjectParts(Idx(subjects, index)) \o AccountSubjectsLoop(subjects, index + 1)

formatAccountSubjectInfo(caseData) ==
    LET accountInfo == Or(Dot(caseData, "account_info"), EmptyObj)
        subjects == Or(Dot(caseData, "subjects"), Arr(<<>>))
        accountText ==
            <<L("Personal "), Or(Dot(accountInfo, "account_type"), L("checking/savings")),
              L(" account "), Or(Dot(accountInfo, "account_number"), EmptyStr),
              L(" was opened on "), Or(Dot(accountInfo, "open_date"), EmptyStr), L(" and ")>>
            \o (IF Truthy(Dot(accountInfo, "close_date"))
                THEN <<L("was closed on "), Dot(accountInfo, "close_date"), L(". "),
                       L("The account was closed due to "),
                       Or(Dot(accountInfo, "closure_reason"),
                          L("[INVESTIGATOR TO INSERT CLOSURE REASON]")),
                       L(". "),
                       L("The account closure funds were moved to [INVESTIGATOR TO INSERT DESTINATION] on [INVESTIGATOR TO INSERT DATE] via [INVESTIGATOR TO INSERT METHOD].")>>
                ELSE <<L("remains open.")>>)
    IN  Tpl(accountText \o <<L("\n\n")>> \o AccountSubjectsLoop(subjects, 0))

----------------------------------------------------------------------------
(* The composers only the 12-section revision uses *)

\* the composer taking the description of the last alert of the list
formatAlertingActivity_lastAlert(caseData, alertInfo) ==
    IF ~Truthy(caseData) THEN EmptyStr
    ELSE
    LET caseNumber == Or(Dot(caseData, "case_number"), EmptyStr)
        accountInfo == Or(Dot(caseData, "account_info"), EmptyObj)
        accountNumber == Or(Dot(accountInfo, "account_number"), EmptyStr)
        accountType == Or(Dot(accountInfo, "account_type"), EmptyStr)
        alerts == Dot(caseData, "alert_info")
        alertDescription ==
            IF IsArray(alerts) /\ Length(alerts) > 0
            THEN Or(Dot(Idx(alerts, Length(alerts) - 1), "description"), EmptyStr)
            ELSE IF Truthy(QDot(alerts, "description"))
            THEN Dot(alerts, "description")
            ELSE EmptyStr
    IN  Tpl(<<L("Case Number: "), caseNumber, L("\nAccount Number: "), accountNumber,
              L("\nAccount Type: "), accountType, L("\n\nAlert Information:\n"),
              alertDescription,
              L("\n\nThis case was selected for review due to the above alerting activity that indicates potential suspicious behavior requiring further investigation.")>>)

formatAlertingActivity(caseData, alertInfo) ==
    IF ~Truthy(caseData) THEN EmptyStr
    ELSE
    LET caseNumber == Or(Dot(caseData, "case_number"), EmptyStr)
        accountInfo == Or(Dot(caseData, "account_info"), EmptyObj)
        accountNumber == Or(Dot(accountInfo, "account_number"), EmptyStr)
        accountType == Or(Dot(accountInfo, "account_type"), EmptyStr)
        alerts == Dot(caseData, "alert_info")
        alertDescription ==
            IF IsArray(alerts) /\ Length(alerts) > 0
            THEN Or(Dot(Idx(alerts, 0), "description"), EmptyStr)
            ELSE IF Truthy(QDot(alerts, "description"))
            THEN Dot(alerts, "description")
            ELSE EmptyStr
    IN  Tpl(<<L("Case Number: "), caseNumber, L("\nAccount Number: "), accountNumber,
              L("\nAccount Type: "), accountType, L("\n\nAlert Information:\n"),
              alertDescription,
              L("\n\nThis case was selected for review due to the above alerting activity that indicates potential suspicious behavior requiring further investigation.")>>)

RECURSIVE PriorSARsLoop(_, _)
PriorSARsLoop(priorCases, index) ==
    IF index >= Length(priorCases) THEN <<>>
    ELSE LET priorCase == Idx(priorCases, index)
             caseNumber == Or(Dot(priorCase, "case_number"), EmptyStr)
             filingDate == Or(Dot(priorCase, "filing_date"), L("Unknown filing date"))
             summary == Or(Dot(priorCase, "summary"), L("No summary available"))
         IN  <<L("Prior SAR #"), N(index + 1), L(": Case Number "), caseNumber, L("\n"),
               L("Filing Date: "), filingDate, L("\n"),
               L("Summary: "), summary, L("\n\n")>>
             \o PriorSARsLoop(priorCases, index + 1)

\* the composer without the test for the empty list
formatPriorSARs_noEmptyTest(priorCases) ==
    IF ~Truthy(priorCases)
    THEN L("No prior SARs were identified for the subjects or account.")
    ELSE Tpl(<<L("The following prior SARs were identified:\n\n")>>
             \o PriorSARsLoop(priorCases, 0))

formatPriorSARs(priorCases) ==
    IF ~Truthy(priorCases) \/ Length(priorCases) = 0
    THEN L("No prior SARs were identified for the subjects or account.")
    ELSE Tpl(<<L("The following prior SARs were identified:\n\n")>>
             \o PriorSARsLoop(priorCases, 0))

\* the review period of the alert also consulted when the case's own
\* period lacks its start or its end
formatScopeOfReview_fallThrough(reviewPeriod, alertInfo) ==
    LET complete(p) == Truthy(p) /\ Truthy(Dot(p, "start")) /\ Truthy(Dot(p, "end"))
        chosen ==
            IF ~complete(reviewPeriod)
            THEN IF IsArray(alertInfo) /\ Length(alertInfo) > 0
                    /\ Truthy(Dot(Idx(alertInfo, 0), "review_period"))
                 THEN Dot(Idx(alertInfo, 0), "review_period")
                 ELSE IF Truthy(QDot(alertInfo, "review_period"))
                 THEN Dot(alertInfo, "review_period")
                 ELSE reviewPeriod
            ELSE reviewPeriod
    IN  IF ~Truthy(chosen) THEN L("Review period not specified.")
        ELSE IF ~complete(chosen) THEN L("Review period not fully specified.")
        ELSE Tpl(<<L("This investigation covers the period from "), Dot(chosen, "start"),
                   L(" through "), Dot(chosen, "end"),
                   L(". The review included analysis of account statements, transaction records, customer information, and related documentation to identify potentially suspicious activity.")>>)

formatScopeOfReview(reviewPeriod, alertInfo) ==
    LET chosen ==
            IF ~Truthy(reviewPeriod)
            THEN IF IsArray(alertInfo) /\ Length(alertInfo) > 0
                    /\ Truthy(Dot(Idx(alertInfo, 0), "review_period"))
                 THEN Dot(Idx(alertInfo, 0), "review_period")
                 ELSE IF Truthy(QDot(alertInfo, "review_period"))
                 THEN Dot(alertInfo, "review_period")
                 ELSE Undefined
            ELSE reviewPeriod
    IN  IF IsArray(alertInfo) /\ Length(alertInfo) > 0 /\ ~Truthy(reviewPeriod)
           /\ IsThrow(Dot(Idx(alertInfo, 0), "review_period"))
        THEN TypeError
        ELSE IF ~Truthy(chosen) THEN L("Review period not specified.")
        ELSE LET startDate == Or(Dot(chosen, "start"), EmptyStr)
                 endDate == Or(Dot(chosen, "end"), EmptyStr)
             IN  IF ~Truthy(startDate) \/ ~Truthy(endDate)
                 THEN L("Review period not fully specified.")
                 ELSE Tpl(<<L("This investigation covers the period from "), startDate,
                            L(" through "), endDate,
                            L(". The review included analysis of account statements, transaction records, customer information, and related documentation to identify potentially suspicious activity.")>>)

----------------------------------------------------------------------------
(* The assemblers *)

Section(id, title, content) == [id |-> id, title |-> title, content |-> content]

\* An object literal { k1: v1, k2: v2, ... }: a later entry of a key replaces
\* an earlier one
ObjectLiteral(pairs) ==
    [k \in {pairs[i][1] : i \in DOMAIN pairs} |->
        pairs[CHOOSE i \in DOMAIN pairs :
                /\ pairs[i][1] = k
                /\ \A j \in DOMAIN pairs : pairs[j][1] = k => j <= i][2]]

\* The call's result: a TypeError raised while a local or an entry is
\* evaluated aborts the call, otherwise the literal is returned
Completion(locals, pairs) ==
    IF Raised(locals) \/ \E i \in DOMAIN pairs : IsThrow(pairs[i][2].content)
    THEN [threw |-> TRUE, value |-> <<>>]
    ELSE [threw |-> FALSE, value |-> ObjectLiteral(pairs)]

\* response.sections?.[name], the section instead of its content
readyContent_wholeSection(resp, name) == QDot(Dot(resp, "sections"), name)

\* response.sections?.[name]?.content
readyContent(resp, name) == QDot(QDot(Dot(resp, "sections"), name), "content")

\* the entries from "investigation_summary" to "sar_conclusion", which the
\* 11-section and the 12-section revision share
CommonEntries(resp) ==
    <<  <<"investigation_summary",
          Section("investigation_summary", "Summary of the Investigation",
                  formatInvestigationSummary(Dot(resp, "excel_data"), Dot(resp, "case_data")))>>,
        <<"recommendation_conclusion",
          Section("recommendation_conclusion", "Conclusion",
                  formatRecommendationConclusion(resp))>>,
        <<"cta",
          Section("cta", "CTA", formatCTAInfo(Dot(resp, "case_data"), Dot(resp, "excel_data")))>>,
        <<"retain_close",
          Section("retain_close", "Retain or Close Customer Relationship(s)",
                  formatRetainClose(Dot(resp, "case_data")))>>,
        <<"introduction",
          Section("introduction", "Introduction",
                  Or(readyContent(resp, "introduction"), formatIntroduction(resp)))>>,
        <<"subject_account_info",
          Section("subject_account_info", "Subject/Account Information",
                  Or(readyContent(resp, "account_info"),
                     formatSubjectAccountInfo(Dot(resp, "case_data"))))>>,
        <<"suspicious_activity",
          Section("suspicious_activity", "Suspicious Activity",
                  Or(readyContent(resp, "activity_summary"),
                     formatSuspiciousActivity(Dot(resp, "excel_data"), Dot(resp, "case_data"))))>>,
        <<"transaction_samples",
          Section("transaction_samples", "Suspicious Transaction Samples",
                  Or(readyContent(resp, "transaction_samples"),
                     formatTransactionSamples(Dot(resp, "excel_data"))))>>,
        <<"sar_conclusion",
          Section("sar_conclusion", "SAR Conclusion",
                  Or(readyContent(resp, "conclusion"),
                     formatSARConclusion(Dot(resp, "case_data"), Dot(resp, "excel_data"))))>>  >>

\* sar-narrative-mapper.ts: the locals evaluated before the literal
mapBackendDataToSections_locals(resp) ==
    <<caseDataOf(resp), excelDataOf(resp), wordControlOf(resp),
      caseInfoCaseNumber(resp), caseInfoAccountNumber(resp),
      primarySubjectName(Dot(caseDataOf(resp), "subjects")),
      resolveTotal(excelDataOf(resp), "credit_summary", "total_credits"),
      resolveTotal(excelDataOf(resp), "debit_summary", "total_debits"),
      transactionTypesOf(excelDataOf(resp)), subjectInfoOf(resp),
      dateOf(resp, "Start Date", "start_date"), dateOf(resp, "End Date", "end_date")>>

\* templateSections with the "scope_of_review" entry left out
mapBackendDataToSections_entries_noScope(resp) ==
    LET excelData == excelDataOf(resp)
        totalCredits == resolveTotal(excelData, "credit_summary", "total_credits")
        totalDebits == resolveTotal(excelData, "debit_summary", "total_debits")
        startDate == dateOf(resp, "Start Date", "start_date")
        endDate == dateOf(resp, "End Date", "end_date")
    IN  <<  <<"activity_summary",
              Section("activity_summary", "Activity Summary",
                      Tpl(<<L("The account activity for "), caseInfoAccountNumber(resp),
                            L(" from "), startDate, L(" to "), endDate,
                            L(" included total credits of "), formatCurrency(totalCredits),
                            L(" and total debits of "), formatCurrency(totalDebits),
                            L(". "), transactionTypesOf(excelData)>>))>>  >>
        \o CommonEntries(resp)

\* sar-narrative-mapper.ts: the entries of templateSections
mapBackendDataToSections_entries(resp) ==
    LET excelData == excelDataOf(resp)
        wordControl == wordControlOf(resp)
        totalCredits == resolveTotal(excelData, "credit_summary", "total_credits")
        totalDebits == resolveTotal(excelData, "debit_summary", "total_debits")
        startDate == dateOf(resp, "Start Date", "start_date")
        endDate == dateOf(resp, "End Date", "end_date")
    IN  <<  <<"activity_summary",
              Section("activity_summary", "Activity Summary",
                      Tpl(<<L("The account activity for "), caseInfoAccountNumber(resp),
                            L(" from "), startDate, L(" to "), endDate,
                            L(" included total credits of "), formatCurrency(totalCredits),
                            L(" and total debits of "), formatCurrency(totalDebits),
                            L(". "), transactionTypesOf(excelData)>>))>>,
            <<"scope_of_review",
              Section("scope_of_review", "Scope of Review",
                      Or(keyValue(wordControl, "Scope of Review provided by investigator"),
                         Tpl(<<L("This investigation covers the period from "), startDate,
                               L(" through "), endDate, L(".")>>)))>>  >>
        \o CommonEntries(resp)

mapBackendDataToSections(resp) ==
    Completion(mapBackendDataToSections_locals(resp), mapBackendDataToSections_entries(resp))

\* types/index.ts, 12-section revision
mapBackendDataToSections_recommendation(resp) ==
    LET caseData == Dot(resp, "case_data")
        locals == <<Or(QDot(caseData, "case_number"), EmptyStr),
                    Or(QDot(QDot(caseData, "account_info"), "account_number"), EmptyStr),
                    primarySubjectName(QDot(caseData, "subjects"))>>
        entries ==
            <<  <<"alerting_activity",
                  Section("alerting_activity", "Alerting Activity / Reason for Review",
                          formatAlertingActivity(Dot(resp, "case_data"), Dot(resp, "alert_info")))>>,
                <<"prior_sars",
                  Section("prior_sars", "Prior SARs",
                          formatPriorSARs(QDot(Dot(resp, "case_data"), "prior_cases")))>>,
                <<"scope_of_review",
                  Section("scope_of_review", "Scope of Review",
                          formatScopeOfReview(QDot(Dot(resp, "case_data"), "review_period"),
                                              QDot(Dot(resp, "case_data"), "alert_info")))>>  >>
            \o CommonEntries(resp)
    IN  Completion(locals, entries)

\* The identifiers and titles types/index.ts imports from '../types'
NARRATIVE_SECTION_IDS ==
    [SUSPICIOUS_ACTIVITY_SUMMARY |-> "suspicious_activity_summary",
     PRIOR_CASES |-> "prior_cases",
     ACCOUNT_SUBJECT_INFO |-> "account_subject_info",
     SUSPICIOUS_ACTIVITY_ANALYSIS |-> "suspicious_activity_analysis",
     CONCLUSION |-> "conclusion"]

NARRATIVE_SECTION_TITLES ==
    [suspicious_activity_summary |-> "Suspicious Activity Summary",
     prior_cases |-> "Prior Cases/SARs",
     account_subject_info |-> "Account/Subject Information",
     suspicious_activity_analysis |-> "Suspicious Activity Analysis",
     conclusion |-> "Conclusion"]

AmlRisks == L("structuring, layering, multi-location activity, rapid movement of funds")

\* types/index.ts, 5-section revision
mapBackendDataToSections_narrative(resp) ==
    LET caseData == caseDataOf(resp)
        excelData == excelDataOf(resp)
        primarySubject == primarySubjectName(Dot(caseData, "subjects"))
        transactionTypes == transactionTypesOf(excelData)
        unusualActivity == Or(Dot(excelData, "unusual_activity"), EmptyObj)
        transactionSamples == Or(Dot(unusualActivity, "transactions"), Arr(<<>>))
        activitySummary == Or(Dot(excelData, "activity_summary"), EmptyObj)
        startDate == dateOf(resp, "Start Date", "start_date")
        endDate == dateOf(resp, "End Date", "end_date")
        locals == <<caseData, excelData, wordControlOf(resp), caseInfoCaseNumber(resp),
                    caseInfoAccountNumber(resp), primarySubject,
                    resolveTotal(excelData, "credit_summary", "total_credits"),
                    resolveTotal(excelData, "debit_summary", "total_debits"),
                    transactionTypes, transactionSamples, startDate, endDate>>
        ids == NARRATIVE_SECTION_IDS
        entries ==
            <<  <<ids.SUSPICIOUS_ACTIVITY_SUMMARY,
                  Section(ids.SUSPICIOUS_ACTIVITY_SUMMARY,
                          NARRATIVE_SECTION_TITLES[ids.SUSPICIOUS_ACTIVITY_SUMMARY],
                          Tpl(<<L("U.S. Bank National Association (USB), is filing this Suspicious Activity Report (SAR) to report "),
                                transactionTypes, L(" totaling "),
                                formatCurrency(Or(Dot(activitySummary, "total_amount"), N(0))),
                                L(" by "), primarySubject, L(" in "),
                                Or(QDot(Dot(caseData, "account_info"), "account_type"),
                                   L("checking/savings")),
                                L(" account number "), caseInfoAccountNumber(resp),
                                L(". The suspicious activity was conducted from "), startDate,
                                L(" through "), endDate,
                                L(". The AML indicators were as follows: "), AmlRisks,
                                L(". This SAR contains an attached Comma Separated Value (CSV) file that provides additional details of the suspicious transactions being reported in this SAR.")>>))>>,
                <<ids.PRIOR_CASES,
                  Section(ids.PRIOR_CASES, NARRATIVE_SECTION_TITLES[ids.PRIOR_CASES],
                          formatPriorCases(Or(Dot(caseData, "prior_cases"), Arr(<<>>))))>>,
                <<ids.ACCOUNT_SUBJECT_INFO,
                  Section(ids.ACCOUNT_SUBJECT_INFO,
                          NARRATIVE_SECTION_TITLES[ids.ACCOUNT_SUBJECT_INFO],
                          formatAccountSubjectInfo(caseData))>>,
                <<ids.SUSPICIOUS_ACTIVITY_ANALYSIS,
                  Section(ids.SUSPICIOUS_ACTIVITY_ANALYSIS,
                          NARRATIVE_SECTION_TITLES[ids.SUSPICIOUS_ACTIVITY_ANALYSIS],
                          Tpl(<<L("The suspicious activity identified in account "),
                                caseInfoAccountNumber(resp), L(" was conducted from "),
                                startDate, L(" to "), endDate, L(" and consisted of "),
                                transactionTypes,
                                L(". The AML risks associated with these transactions are as follows: "),
                                AmlRisks, L(".\n\n"),
                                formatTransactionSamples_list(transactionSamples)>>))>>,
                <<ids.CONCLUSION,
                  Section(ids.CONCLUSION, NARRATIVE_SECTION_TITLES[ids.CONCLUSION],
                          Tpl(<<L("In conclusion, USB will conduct a follow-up review to monitor for continuing activity. All requests for supporting documentation can be sent to lawenforcementrequestaml@usbank.com referencing AML case number "),
                                caseInfoCaseNumber(resp), L(".")>>))>>  >>
    IN  Completion(locals, entries)

----------------------------------------------------------------------------
(* The edit page: fetchSections and the case-info header *)

\* (section) => section.section === "Case Information" && section["Relevant Accounts"]
isCaseInformation(section) ==
    /\ Dot(section, "section") = L("Case Information")
    /\ Truthy(Dot(section, "Relevant Accounts"))

\* the Relevant Accounts of the first section of full_data that is the
\* Case Information and has them, else []
getRelevantAccountsFromCaseData(caseData) ==
    IF ~Truthy(caseData) \/ ~Truthy(Dot(caseData, "full_data")) THEN Arr(<<>>)
    ELSE IF Truthy(find(Dot(caseData, "full_data"), isCaseInformation))
    THEN Dot(find(Dot(caseData, "full_data"), isCaseInformation), "Relevant Accounts")
    ELSE Arr(<<>>)

\* the resolution that consults account_info before the relevant accounts
fetchSections_accountNumber_accountInfoFirst(caseData) ==
    IF Truthy(QDot(Dot(caseData, "account_info"), "account_number"))
    THEN Dot(Dot(caseData, "account_info"), "account_number")
    ELSE IF Truthy(getRelevantAccountsFromCaseData(caseData))
            /\ Length(getRelevantAccountsFromCaseData(caseData)) > 0
    THEN Idx(getRelevantAccountsFromCaseData(caseData), 0)
    ELSE EmptyStr

\* let accountNumber = ""; the first relevant account, else
\* account_info?.account_number when it is there
fetchSections_accountNumber(caseData) ==
    IF Truthy(getRelevantAccountsFromCaseData(caseData))
       /\ Length(getRelevantAccountsFromCaseData(caseData)) > 0
    THEN Idx(getRelevantAccountsFromCaseData(caseData), 0)
    ELSE IF Truthy(QDot(Dot(caseData, "account_info"), "account_number"))
    THEN Dot(Dot(caseData, "account_info"), "account_number")
    ELSE EmptyStr

\* new Date().toISOString(), the moment of the call
dateGenerated == L("now")

\* the case info fetchSections leaves in the page state: the ready one of
\* the response, else the one extracted from case_data, else the current one
fetchSections_caseInfo(resp, current) ==
    IF Dot(resp, "status") # L("success") THEN current
    ELSE IF Truthy(Dot(resp, "caseInfo")) THEN Dot(resp, "caseInfo")
    ELSE IF Truthy(Dot(resp, "case_data"))
    THEN Obj([caseNumber |-> Or(Dot(Dot(resp, "case_data"), "case_number"), EmptyStr),
              accountNumber |-> fetchSections_accountNumber(Dot(resp, "case_data")),
              dateGenerated |-> dateGenerated])
    ELSE current

\* if (response.sections) setSections(response.sections)
fetchSections_sections(resp, current) ==
    IF Dot(resp, "status") = L("success") /\ Truthy(Dot(resp, "sections"))
    THEN Dot(resp, "sections").v
    ELSE current

----------------------------------------------------------------------------
(* The edit page: its state *)

\* useState(null)
null == [t |-> "null"]

\* the state of the page as its useState calls initialise it, and the
\* requests it has in flight: the summary fetches not yet answered, the
\* saves and the regenerations not yet answered (oldest first), what the
\* server has stored of the saves it answered, whether the last answer to
\* each summary request was a failure, and how many steps the user took
EditPage ==
    [recommendation |-> EmptyObj,
     activeTab |-> NARRATIVE_SECTION_IDS.SUSPICIOUS_ACTIVITY_SUMMARY,
     isLoading |-> TRUE,
     isSaving |-> FALSE,
     isRegenerating |-> FALSE,
     error |-> null,
     activeSection |-> null,
     generatedAlertSummary |-> EmptyStr,
     isLoadingAlertActivity |-> FALSE,
     isLoadingPriorCases |-> FALSE,
     generatedPriorCasesSummary |-> EmptyStr,
     alertFetches |-> 0,
     priorFetches |-> 0,
     saves |-> <<>>,
     regenerations |-> <<>>,
     stored |-> <<>>,
     alertFailed |-> FALSE,
     priorFailed |-> FALSE,
     events |-> 0]

\* { ...o, [k]: v }
Spread(o, k, v) == Obj([x \in DOMAIN o.v \cup {k} |-> IF x = k THEN v ELSE o.v[x]])

\* String.prototype.trim on the fragments of a string: a fragment " " is a
\* blank
RECURSIVE trimStart(_)
trimStart(t) == IF t # <<>> /\ Head(t) = " " THEN trimStart(Tail(t)) ELSE t
RECURSIVE trimEnd(_)
trimEnd(t) == IF t # <<>> /\ t[Len(t)] = " " THEN trimEnd(SubSeq(t, 1, Len(t) - 1)) ELSE t
trim(s) == Str(trimEnd(trimStart(s.v)))

\* !x || x.trim() === ''
isBlank(x) == ~Truthy(x) \/ trim(x) = EmptyStr

\* the order in which the responses of the model list the keys of their
\* objects, and Object.keys(o)[0]
KeyOrder ==
    <<"suspicious_activity_summary", "prior_cases", "alerting_activity", "prior_sars",
      "scope_of_review", "cta">>
FirstKey(o) ==
    KeyOrder[CHOOSE i \in DOMAIN KeyOrder :
                /\ KeyOrder[i] \in DOMAIN o
                /\ \A j \in 1..(i - 1) : KeyOrder[j] \notin DOMAIN o]

getRecommendationSectionTitle(sectionId) ==
    CASE sectionId = "alerting_activity" -> "Alerting Activity / Reason for Review"
      [] sectionId = "prior_sars" -> "Prior SARs/SAR Summary"
      [] sectionId = "scope_of_review" -> "Scope of Review"
      [] sectionId = "investigation_summary" -> "Summary of Investigation"
      [] sectionId = "conclusion" -> "Conclusion"
      [] sectionId = "cta" -> "CTA"
      [] sectionId = "bip" -> "BIP"
      [] sectionId = "retain_close" -> "Retain or Close Customer Relationship(s)"
      [] OTHER -> "Section"

\* the active section made of a narrative section, and of an entry of the
\* recommendation
narrativeSection(secs, id) ==
    [id |-> id, content |-> secs[id].content, title |-> secs[id].title,
     isRecommendation |-> FALSE]
recommendationSection(recommendation, id) ==
    [id |-> id, content |-> Dot(recommendation, id),
     title |-> getRecommendationSectionTitle(id), isRecommendation |-> TRUE]

\* fetchAlertingActivityData() and fetchPriorCasesData() up to their await
startAlertingActivityFetch(p) ==
    [p EXCEPT !.isLoadingAlertActivity = TRUE, !.alertFetches = @ + 1]
startPriorCasesFetch(p) ==
    [p EXCEPT !.isLoadingPriorCases = TRUE, !.priorFetches = @ + 1]

\* the section fetchSections makes active: the first required narrative
\* section, else the first section there is, else the first entry of the
\* recommendation, else the one that was
fetchSections_active(resp, p) ==
    IF Truthy(Dot(resp, "sections")) /\ DOMAIN Dot(resp, "sections").v # {}
    THEN IF NARRATIVE_SECTION_IDS.SUSPICIOUS_ACTIVITY_SUMMARY \in DOMAIN Dot(resp, "sections").v
         THEN [p EXCEPT !.activeTab = NARRATIVE_SECTION_IDS.SUSPICIOUS_ACTIVITY_SUMMARY,
                        !.activeSection =
                            narrativeSection(Dot(resp, "sections").v,
                                             NARRATIVE_SECTION_IDS.SUSPICIOUS_ACTIVITY_SUMMARY)]
         ELSE [p EXCEPT !.activeTab = FirstKey(Dot(resp, "sections").v),
                        !.activeSection =
                            narrativeSection(Dot(resp, "sections").v,
                                             FirstKey(Dot(resp, "sections").v))]
    ELSE IF Truthy(Dot(resp, "recommendation")) /\ DOMAIN Dot(resp, "recommendation").v # {}
    THEN [p EXCEPT !.activeTab = FirstKey(Dot(resp, "recommendation").v),
                   !.activeSection =
                       recommendationSection(Dot(resp, "recommendation"),
                                             FirstKey(Dot(resp, "recommendation").v))]
    ELSE p

\* the page state fetchSections leaves, the sections and the case info
\* apart
fetchSections_page(resp, p) ==
    IF Dot(resp, "status") = L("success")
    THEN [startPriorCasesFetch(startAlertingActivityFetch(
            fetchSections_active(resp,
                [p EXCEPT !.recommendation =
                            IF Truthy(Dot(resp, "recommendation"))
                            THEN Dot(resp, "recommendation") ELSE @])))
            EXCEPT !.isLoading = FALSE]
    ELSE [p EXCEPT !.error = L("Failed to load narrative sections"), !.isLoading = FALSE]

\* initializeLLMContent for one of the two summaries: the entry is written
\* without the test of what it holds
initializeSummary_always(p, id, generated) ==
    IF Truthy(generated) /\ trim(generated) # EmptyStr
    THEN [p EXCEPT !.recommendation = Spread(@, id, generated),
                   !.activeSection =
                        IF @ # null /\ @.id = id THEN [@ EXCEPT !.content = generated]
                        ELSE @]
    ELSE p

\* initializeLLMContent for one of the two summaries: the generated summary
\* goes into the entry, and into the active section when it is that entry,
\* when the summary is not blank and the entry is
initializeSummary(p, id, generated) ==
    IF Truthy(generated) /\ trim(generated) # EmptyStr
       /\ isBlank(Dot(p.recommendation, id))
    THEN [p EXCEPT !.recommendation = Spread(@, id, generated),
                   !.activeSection =
                        IF @ # null /\ @.id = id THEN [@ EXCEPT !.content = generated]
                        ELSE @]
    ELSE p

initializeLLMContent(p) ==
    initializeSummary(initializeSummary(p, "alerting_activity", p.generatedAlertSummary),
                      "prior_sars", p.generatedPriorCasesSummary)

\* the values the initialising effect depends on
effectDeps(p) ==
    <<p.isLoadingAlertActivity, p.isLoadingPriorCases, p.isLoading,
      p.generatedAlertSummary, p.generatedPriorCasesSummary>>

\* the state once the page has rendered q after p: the effect runs when one
\* of its dependencies has changed, and initialises when nothing is loading
afterRender(p, q) ==
    IF effectDeps(q) # effectDeps(p)
       /\ ~q.isLoadingAlertActivity /\ ~q.isLoadingPriorCases /\ ~q.isLoading
    THEN initializeLLMContent(q)
    ELSE q

----------------------------------------------------------------------------
(* The edit page: its handlers *)

\* setActiveTab(tabId), and the active section when the tab's section is a
\* narrative section or a recommendation entry that is not empty
handleTabChange(p, secs, tabId) ==
    [p EXCEPT !.activeTab = tabId,
              !.activeSection =
                    IF tabId \in DOMAIN secs THEN narrativeSection(secs, tabId)
                    ELSE IF Truthy(Dot(p.recommendation, tabId))
                    THEN recommendationSection(p.recommendation, tabId)
                    ELSE @]

\* handleContentChange: what it leaves in the page state and in the sections
handleContentChange(p, content) ==
    [p EXCEPT !.recommendation =
                    IF p.activeSection.isRecommendation
                    THEN Spread(@, p.activeSection.id, content) ELSE @,
              !.activeSection = [@ EXCEPT !.content = content]]
handleContentChange_sections(p, secs, content) ==
    IF p.activeSection.isRecommendation THEN secs
    ELSE [secs EXCEPT ![p.activeSection.id] = [@ EXCEPT !.content = content]]

\* handleSaveSection up to its await: the request carries the id, the
\* content and the kind of the active section
handleSaveSection(p) ==
    [p EXCEPT !.isSaving = TRUE,
              !.error = null,
              !.saves = Append(@, [sectionId |-> p.activeSection.id,
                                   content |-> p.activeSection.content,
                                   isRecommendation |-> p.activeSection.isRecommendation])]

\* handleSaveSection from its await on; the server has stored the content
\* when it answers a success
handleSaveSection_answered(p, answer) ==
    [p EXCEPT !.isSaving = FALSE,
              !.error = CASE answer = "success" -> @
                          [] answer = "error" -> L("Failed to save section")
                          [] OTHER -> L("An error occurred while saving the section"),
              !.stored = IF answer = "success"
                         THEN [x \in DOMAIN @ \cup {Head(p.saves).sectionId} |->
                                  IF x = Head(p.saves).sectionId THEN Head(p.saves).content
                                  ELSE @[x]]
                         ELSE @,
              !.saves = Tail(@)]

\* handleRegenerateSection up to its await: const sectionId = activeSection.id
handleRegenerateSection(p) ==
    [p EXCEPT !.isRegenerating = TRUE,
              !.error = null,
              !.regenerations = Append(@, p.activeSection.id)]

\* response.section.content for the section asked for
regeneratedContent(sectionId) == Str(<<"regenerated ", sectionId>>)

\* handleRegenerateSection from its await on, for a success that carries
\* the section: the entry or the section of the id taken at the request,
\* the refetch of the summary data, and the content of the active section
regenerated(p, secs, sectionId) ==
    LET newContent == regeneratedContent(sectionId)
        written ==
            IF sectionId \in DOMAIN secs THEN p
            ELSE IF sectionId = "alerting_activity"
            THEN startAlertingActivityFetch(
                    [p EXCEPT !.recommendation = Spread(@, sectionId, newContent)])
            ELSE IF sectionId = "prior_sars"
            THEN startPriorCasesFetch(
                    [p EXCEPT !.recommendation = Spread(@, sectionId, newContent)])
            ELSE [p EXCEPT !.recommendation = Spread(@, sectionId, newContent)]
    IN  [written EXCEPT !.activeSection =
                            IF @ # null THEN [@ EXCEPT !.content = newContent] ELSE null]

handleRegenerateSection_answered(p, secs, answer) ==
    [(IF answer = "success" THEN regenerated(p, secs, Head(p.regenerations)) ELSE p)
        EXCEPT !.isRegenerating = FALSE,
               !.error = CASE answer = "success" -> @
                           [] answer = "error" -> L("Failed to regenerate section")
                           [] OTHER -> L("An error occurred while regenerating the section"),
               !.regenerations = Tail(@)]
handleRegenerateSection_sections(p, secs, answer) ==
    IF answer = "success" /\ Head(p.regenerations) \in DOMAIN secs
    THEN [secs EXCEPT ![Head(p.regenerations)] =
                        [@ EXCEPT !.content = regeneratedContent(Head(p.regenerations))]]
    ELSE secs

\* what the summary requests answer: a success with the generated summary
\* or without one, an error status, or a failure of the call
SummaryAnswers == {"summary", "no_summary", "error", "threw"}

generatedAlert == L("generated alert summary")
generatedPrior == L("generated prior cases summary")

\* an answer that is an error status or a failure of the call
Failed(answer) == answer \in {"error", "threw"}

\* fetchAlertingActivityData that reports a failure in the page's error
fetchAlertingActivityData_propagates(p, answer) ==
    [p EXCEPT !.generatedAlertSummary = IF answer = "summary" THEN generatedAlert ELSE @,
              !.error = IF Failed(answer) THEN L("Failed to load alerting activity data") ELSE @,
              !.isLoadingAlertActivity = FALSE,
              !.alertFailed = Failed(answer),
              !.alertFetches = @ - 1]

\* fetchAlertingActivityData and fetchPriorCasesData from their await on:
\* a failure is logged, and the loading flag falls in every case
fetchAlertingActivityData(p, answer) ==
    [p EXCEPT !.generatedAlertSummary = IF answer = "summary" THEN generatedAlert ELSE @,
              !.isLoadingAlertActivity = FALSE,
              !.alertFailed = Failed(answer),
              !.alertFetches = @ - 1]
fetchPriorCasesData(p, answer) ==
    [p EXCEPT !.generatedPriorCasesSummary = IF answer = "summary" THEN generatedPrior ELSE @,
              !.isLoadingPriorCases = FALSE,
              !.priorFailed = Failed(answer),
              !.priorFetches = @ - 1]

----------------------------------------------------------------------------
(* The preview page: the flattened narrative *)

\* sections[id]?.content || ''
contentOrEmpty(secs, id) ==
    IF id \in DOMAIN secs THEN Or(secs[id].content, EmptyStr) ELSE EmptyStr

\* orderedSectionIds.map(id => sections[id]?.content || '')
\*                  .filter(content => content).join('\n\n')
flatten(secs, orderedSectionIds) ==
    join(Arr(SelectSeq([i \in DOMAIN orderedSectionIds |->
                            contentOrEmpty(secs, orderedSectionIds[i])],
                       Truthy)),
         "\n\n")

\* the preview page with the recommendation tab
buildFullNarrative(secs) ==
    flatten(secs, <<"introduction", "prior_cases", "account_info", "subject_info",
                    "activity_summary", "transaction_samples", "conclusion">>)

\* the preview page without it
buildFullNarrative_preview(secs) ==
    flatten(secs, <<"introduction", "prior_cases", "account_info",
                    "activity_summary", "conclusion">>)

----------------------------------------------------------------------------
(* The call as a step *)

Run(name, result, after) ==
    /\ schema = "none"
    /\ schema' = name
    /\ outcome' = IF result.threw THEN "threw" ELSE "returned"
    /\ sections' = result.value
    /\ response' = after
    /\ UNCHANGED <<caseInfo, page>>

\* sar-narrative-mapper.ts
MapSections ==
    Run("sections", mapBackendDataToSections(response),
        mapBackendDataToSections_after(response))
\* types/index.ts, 5-section revision
MapNarrative ==
    Run("narrative", mapBackendDataToSections_narrative(response),
        mapBackendDataToSections_after(response))
\* types/index.ts, 12-section revision: it sorts nothing, and the assignment
\* to the parameter reviewPeriod in formatScopeOfReview binds a local
MapRecommendation ==
    Run("recommendation", mapBackendDataToSections_recommendation(response), response)

\* the edit page's fetchSections on the response of getSections: the
\* sections and the case info it stores
FetchSections ==
    /\ schema = "none"
    /\ schema' = "fetched"
    /\ outcome' = "returned"
    /\ sections' = fetchSections_sections(response, sections)
    /\ caseInfo' = fetchSections_caseInfo(response, caseInfo)
    /\ page' = afterRender(page, fetchSections_page(response, page))
    /\ UNCHANGED response

\* The edit page once it is loaded.  A step of the user is taken while the
\* page is shown (not loading); MaxEvents bounds how many the user takes.
MaxEvents == 3

UserCan ==
    /\ schema = "fetched"
    /\ ~page.isLoading
    /\ page.events < MaxEvents

\* the tabs of the page: the recommendation entries, and the narrative
\* sections there are
TabIds == {"alerting_activity", "prior_sars", "scope_of_review", "cta"} \cup DOMAIN sections

\* what the user types
EditTexts == {EmptyStr, L("edited")}

Counted(p) == [p EXCEPT !.events = @ + 1]

HandleTabChange ==
    /\ UserCan
    /\ \E tabId \in TabIds :
          page' = afterRender(page, Counted(handleTabChange(page, sections, tabId)))
    /\ UNCHANGED <<response, schema, outcome, sections, caseInfo>>

\* the editor is rendered when there is an active section
HandleContentChange ==
    /\ UserCan
    /\ page.activeSection # null
    /\ \E content \in EditTexts :
          /\ page' = afterRender(page, Counted(handleContentChange(page, content)))
          /\ sections' = handleContentChange_sections(page, sections, content)
    /\ UNCHANGED <<response, schema, outcome, caseInfo>>

\* the Save button: disabled={isSaving || !activeSection}
HandleSaveSection ==
    /\ UserCan
    /\ ~(page.isSaving \/ page.activeSection = null)
    /\ page' = afterRender(page, Counted(handleSaveSection(page)))
    /\ UNCHANGED <<response, schema, outcome, sections, caseInfo>>

SaveAnswered ==
    /\ page.saves # <<>>
    /\ \E answer \in {"success", "error", "threw"} :
          page' = afterRender(page, handleSaveSection_answered(page, answer))
    /\ UNCHANGED <<response, schema, outcome, sections, caseInfo>>

\* the Regenerate button: disabled={isRegenerating || !activeSection}
HandleRegenerateSection ==
    /\ UserCan
    /\ ~(page.isRegenerating \/ page.activeSection = null)
    /\ page' = afterRender(page, Counted(handleRegenerateSection(page)))
    /\ UNCHANGED <<response, schema, outcome, sections, caseInfo>>

RegenerationAnswered ==
    /\ page.regenerations # <<>>
    /\ \E answer \in {"success", "error", "threw"} :
          /\ page' = afterRender(page, handleRegenerateSection_answered(page, sections, answer))
          /\ sections' = handleRegenerateSection_sections(page, sections, answer)
    /\ UNCHANGED <<response, schema, outcome, caseInfo>>

AlertingActivityAnswered ==
    /\ page.alertFetches > 0
    /\ \E answer \in SummaryAnswers :
          page' = afterRender(page, fetchAlertingActivityData(page, answer))
    /\ UNCHANGED <<response, schema, outcome, sections, caseInfo>>

PriorCasesAnswered ==
    /\ page.priorFetches > 0
    /\ \E answer \in SummaryAnswers :
          page' = afterRender(page, fetchPriorCasesData(page, answer))
    /\ UNCHANGED <<response, schema, outcome, sections, caseInfo>>

----------------------------------------------------------------------------
(* Input bundles *)

\* an object from <<key, value>> pairs; a pair whose value is undefined is
\* an absent key
Rec(pairs) ==
    LET keep == {i \in DOMAIN pairs : pairs[i][2].t # "undefined"}
    IN  Obj([k \in {pairs[i][1] : i \in keep} |->
                pairs[CHOOSE i \in keep : pairs[i][1] = k][2]])

\* v when present, else an absent key
Opt(present, v) == IF present THEN v ELSE Undefined

\* the bundle { case_data, excel_data }
Bundle(caseData, excelData) ==
    Rec(<<<<"case_data", caseData>>, <<"excel_data", excelData>>>>)

NotRun ==
    /\ schema = "none"
    /\ outcome = "pending"
    /\ sections = <<>>
    /\ caseInfo = EmptyObj
    /\ page = EditPage

\* the fragments of a section's content
ContentOf(key) == sections[key].content.v

\* the position of the first fragment of text equal to marker, 0 when none
IndexOf(text, marker) ==
    IF \E i \in DOMAIN text : text[i] = marker
    THEN CHOOSE i \in DOMAIN text :
            text[i] = marker /\ \A j \in 1..(i - 1) : text[j] # marker
    ELSE 0

\* the fragment that follows the first marker
After(text, marker) == text[IndexOf(text, marker) + 1]

\* the fragments from position i up to the next fragment equal to stop
RECURSIVE UpTo(_, _, _)
UpTo(text, i, stop) ==
    IF i > Len(text) \/ text[i] = stop THEN <<>>
    ELSE <<text[i]>> \o UpTo(text, i + 1, stop)

\* the fragments between the first start marker and the next stop marker
Between(text, start, stop) ==
    IF IndexOf(text, start) = 0 THEN <<>>
    ELSE UpTo(text, IndexOf(text, start) + 1, stop)

Range(f) == {f[i] : i \in DOMAIN f}

CharsClosedStatus == <<"C", "l", "o", "s", "e", "d">>
CharsOpenStatus == <<"O", "p", "e", "n">>
CharsWireType == <<"W", "i", "r", "e">>
CharsGrandTotalLabel == <<"G", "r", "a", "n", "d", " ", "T", "o", "t", "a", "l">>
CharsDentistOccupation == <<"D", "e", "n", "t", "i", "s", "t">>

\* the field names a bundle can lack one by one
FieldNames ==
    {"case_number", "name", "is_primary", "occupation", "employer",
     "account_relationship", "account_number", "account_type", "open_date", "status",
     "alert_id", "description", "review_period", "start", "end", "filing_date",
     "summary", "date", "amount", "type", "count", "total_credits", "total_debits",
     "categories", "Custom Language Transaction Category", "Credits ($ Total)",
     "Credits (# Transactions)", "Debits ($ Total)", "Debits (# Transactions)",
     "credit_summary", "debit_summary", "Row Labels", "Total", "key_values",
     "subjects_table", "Case Number", "Start Date", "Case Subject", "start_date",
     "end_date", "total_amount", "credit_breakdown", "debit_breakdown", "content"}

\* A bundle with the keys present that f flags.  f.full: every present object
\* carries its fields, but for the fields named in f.omit; otherwise every
\* present object is empty and every present list holds one empty object.
AssembleBundle(f) ==
    LET P(k, v) == <<k, Opt(f.full /\ k \notin f.omit, v)>>
        subject == Rec(<<P("name", L("Jane Doe")), P("is_primary", Bool(TRUE)),
                         P("occupation", Str(CharsDentistOccupation)),
                         P("employer", L("Acme Dental")),
                         P("account_relationship", L("owner"))>>)
        account == Rec(<<P("account_number", L("1234567890")),
                         P("account_type", L("checking")),
                         P("open_date", L("01/02/2020")),
                         P("status", Str(CharsOpenStatus))>>)
        alert == Rec(<<P("alert_id", L("A-1")), P("description", L("Structuring alert")),
                       P("review_period",
                         Rec(<<P("start", L("01/01/2024")), P("end", L("01/31/2024"))>>))>>)
        prior == Rec(<<P("case_number", L("C1")), P("filing_date", L("01/01/2024")),
                       P("alert_id", Arr(<<L("A-0")>>)), P("summary", L("prior summary"))>>)
        txn == Rec(<<P("date", L("01/05/2024")), P("amount", N(9500)),
                     P("type", Str(CharsWireType)), P("description", L("outgoing"))>>)
        category ==
            Rec(<<P("total_credits", N(400)), P("total_debits", N(450)),
                  P("categories",
                    Arr(<<Rec(<<P("Custom Language Transaction Category", L("Wires")),
                                P("Credits ($ Total)", N(400)),
                                P("Credits (# Transactions)", N(2)),
                                P("Debits ($ Total)", N(450)),
                                P("Debits (# Transactions)", N(3))>>)>>))>>)
        item == Rec(<<P("type", L("Cash")), P("amount", N(250)), P("count", N(2))>>)
        legacy == Rec(<<P("total_credits", N(500)), P("total_debits", N(550)),
                        P("credit_breakdown", Arr(<<item>>)),
                        P("debit_breakdown", Arr(<<item>>))>>)
        tables ==
            Rec(<<P("credit_summary",
                    Arr(<<Rec(<<P("Row Labels", Str(CharsGrandTotalLabel)),
                                P("Total", N(700))>>)>>)),
                  P("debit_summary", Arr(<<>>))>>)
        wcm == Rec(<<P("key_values",
                       Rec(<<P("Case Number", L("2024-001")),
                             P("Start Date", L("01/01/2024"))>>)),
                     P("subjects_table", Arr(<<Rec(<<P("Case Subject", L("Jane Doe"))>>)>>))>>)
        caseData ==
            Rec(<<P("case_number", L("2024-001")),
                  <<"subjects", Opt(f.subjects, Arr(<<subject>>))>>,
                  <<"account_info", Opt(f.account_info, account)>>,
                  <<"alert_info", Opt(f.alert_info, IF f.full THEN Arr(<<alert>>) ELSE alert)>>,
                  <<"prior_cases", Opt(f.prior_cases, Arr(<<prior>>))>>>>)
        excelData ==
            Rec(<<<<"word_control_macro", Opt(f.word_control_macro, wcm)>>,
                  <<"transactions_summary",
                    Opt(f.category_summary, Rec(<<<<"category_summary", category>>>>))>>,
                  <<"transaction_summary", Opt(f.full, legacy)>>,
                  <<"activity_summary_tables", Opt(f.activity_summary_tables, tables)>>,
                  <<"unusual_activity",
                    Opt(f.unusual_activity, Rec(<<<<"transactions", Arr(<<txn>>)>>>>))>>,
                  <<"activity_summary",
                    Opt(f.full, Rec(<<P("start_date", L("01/01/2024")),
                                      P("end_date", L("01/31/2024")),
                                      P("total_amount", Num(1500050))>>))>>>>)
        ready == Rec(<<<<"introduction", Rec(<<P("content", L("ready introduction"))>>)>>>>)
    IN  Rec(<<<<"case_data", Opt(f.case_data, caseData)>>,
              <<"excel_data", Opt(f.excel_data, excelData)>>,
              <<"sections", Opt(f.sections, ready)>>>>)

\* every subset of the bundle's keys absent, with full or with empty objects
AssembleFlags ==
    [case_data : BOOLEAN, subjects : BOOLEAN, account_info : BOOLEAN,
     alert_info : BOOLEAN, prior_cases : BOOLEAN, excel_data : BOOLEAN,
     word_control_macro : BOOLEAN, category_summary : BOOLEAN,
     activity_summary_tables : BOOLEAN, unusual_activity : BOOLEAN,
     sections : BOOLEAN, full : BOOLEAN, omit : {{}}]

\* every key present and one or two fields absent from the objects
OmitFlags ==
    {[case_data |-> TRUE, subjects |-> TRUE, account_info |-> TRUE, alert_info |-> TRUE,
      prior_cases |-> TRUE, excel_data |-> TRUE, word_control_macro |-> TRUE,
      category_summary |-> TRUE, activity_summary_tables |-> TRUE,
      unusual_activity |-> TRUE, sections |-> TRUE, full |-> TRUE,
      omit |-> {a, b}] : a \in FieldNames, b \in FieldNames}

Init ==
    /\ \E f \in AssembleFlags \cup OmitFlags : response = AssembleBundle(f)
    /\ NotRun

Next == MapSections \/ MapNarrative \/ MapRecommendation

Spec == Init /\ [][Next]_vars

\* the section ids of each revision
ExpectedIds ==
    [sections |->
        {"activity_summary", "scope_of_review", "investigation_summary",
         "recommendation_conclusion", "cta", "retain_close", "introduction",
         "subject_account_info", "suspicious_activity", "transaction_samples",
         "sar_conclusion"},
     narrative |->
        {"suspicious_activity_summary", "prior_cases", "account_subject_info",
         "suspicious_activity_analysis", "conclusion"},
     recommendation |->
        {"alerting_activity", "prior_sars", "scope_of_review", "investigation_summary",
         "recommendation_conclusion", "cta", "retain_close", "introduction",
         "subject_account_info", "suspicious_activity", "transaction_samples",
         "sar_conclusion"}]

\* C2: whatever keys of the bundle are absent, the returned mapping has
\* exactly the section ids of its revision as keys, and every entry's id is
\* the key it is stored under.
C2_KeySetIsFixed ==
    schema # "none" =>
        /\ DOMAIN sections = ExpectedIds[schema]
        /\ \A k \in DOMAIN sections : sections[k].id = k

\* a bundle without case_data, excel_data and sections mapped by the
\* 12-section revision to its twelve ids
C2_Witness ==
    /\ schema = "recommendation"
    /\ response = EmptyObj
    /\ Cardinality(DOMAIN sections) = 12
    /\ sections["scope_of_review"].id = "scope_of_review"

\* C3: the call returns whatever fields of the bundle are absent, and every
\* section of the revision is composed: none is missing and each content is
\* a string.
C3_AbsentDataNeverRaises ==
    schema # "none" =>
        /\ outcome = "returned"
        /\ \A k \in ExpectedIds[schema] :
              k \in DOMAIN sections /\ sections[k].content.t = "string"

\* a bundle without case_data whose introduction is still composed from
\* the excel data
C3_Witness ==
    /\ schema = "sections"
    /\ "case_data" \notin DOMAIN response.v
    /\ "excel_data" \in DOMAIN response.v
    /\ outcome = "returned"
    /\ Len(ContentOf("introduction")) > 1
    /\ sections["retain_close"].content = RetainText

----------------------------------------------------------------------------
(* The activity-type ladder of formatIntroduction and formatSARConclusion *)

MaxTxns == 4

\* a transaction { amount, type }
Txn(amount, type) == Rec(<<<<"amount", amount>>, <<"type", type>>>>)

\* the transactions the lists are drawn from: 8000.00 by check, 9999.99 by
\* "Wire", 10000.00 in "CASH", 500.00 by "ach", 7999.99 as "Cash Wire", and
\* 300.00 without a type
ClassifyKinds ==
    <<Txn(N(8000), Str(<<"c", "h", "e", "c", "k">>)),
      Txn(Num(999999), Str(<<"W", "i", "r", "e">>)),
      Txn(N(10000), Str(<<"C", "A", "S", "H">>)),
      Txn(N(500), Str(<<"a", "c", "h">>)),
      Txn(Num(799999), Str(<<"C", "a", "s", "h", " ", "W", "i", "r", "e">>)),
      Txn(N(300), Undefined)>>

\* the kinds with 8000 <= amount < 10000, with a wire or ACH type, and with
\* a cash type
BelowThresholdKinds == {1, 2}
WireAchKinds == {2, 4, 5}
CashKinds == {3, 5}

\* the bundle whose sampled transactions are txns; the list, or the record
\* that holds it, can be missing
ClassifyBundle(shape, txns) ==
    Bundle(Rec(<<<<"case_number", L("2024-001")>>>>),
           Rec(<<<<"unusual_activity",
                   Opt(shape # "no_unusual_activity",
                       Rec(<<<<"transactions", Opt(shape = "list", Arr(txns))>>>>))>>>>))

InitClassify ==
    /\ \E n \in 0..MaxTxns :
          \E ks \in [1..n -> DOMAIN ClassifyKinds] :
             \E shape \in {"list", "no_transactions", "no_unusual_activity"} :
                /\ shape = "list" \/ n = 0
                /\ response = ClassifyBundle(shape, [i \in 1..n |-> ClassifyKinds[ks[i]]])
    /\ NotRun

NextClassify == MapSections \/ MapRecommendation

SpecClassify == InitClassify /\ [][NextClassify]_vars

\* the sampled transactions of the bundle, none when the list is missing
SampledTransactions ==
    Or(QDot(QDot(QDot(response, "excel_data"), "unusual_activity"), "transactions"),
       Arr(<<>>)).v

\* how many sampled transactions are of one of the kinds
KindCount(kinds) ==
    Cardinality({i \in DOMAIN SampledTransactions :
                    \E k \in kinds : ClassifyKinds[k] = SampledTransactions[i]})

\* the outcome of the ladder as the rules state it
C1_Expected ==
    IF KindCount(BelowThresholdKinds) >= 2 THEN "structuring"
    ELSE IF KindCount(WireAchKinds) >= 3 THEN "wire transfer activity"
    ELSE IF KindCount(CashKinds) >= 3 THEN "cash activity"
    ELSE "suspicious activity"

\* C1: for every transaction list, the empty and the missing one included,
\* the introduction and the SAR conclusion both name the activity type the
\* ladder gives: structuring with two transactions of 8000 <= amount < 10000,
\* else wire/ACH with three wire or ACH types, else cash with three cash
\* types, else the generic default.
C1_ActivityTypeLadder ==
    schema # "none" =>
        /\ outcome = "returned"
        /\ ContentOf("introduction")[2] = C1_Expected
        /\ After(ContentOf("sar_conclusion"), " in ") = C1_Expected

\* three transactions that are both cash and wire, fewer than two below the
\* threshold: the wire rule wins over the cash rule
C1_Witness ==
    /\ schema = "sections"
    /\ KindCount(BelowThresholdKinds) < 2
    /\ KindCount(WireAchKinds) >= 3
    /\ KindCount(CashKinds) >= 3
    /\ ContentOf("introduction")[2] = "wire transfer activity"
    /\ After(ContentOf("sar_conclusion"), " in ") = "wire transfer activity"

----------------------------------------------------------------------------
(* formatCurrency on amount text *)

MaxAmountLen == 3

AmountChars == {"a", "7", "$", ",", ".", "-"}

\* the bundle whose legacy credit breakdown has one entry with the amount
\* given as text
CurrencyBundle(amount) ==
    Bundle(Rec(<<<<"case_number", L("2024-001")>>>>),
           Rec(<<<<"transaction_summary",
                   Rec(<<<<"credit_breakdown",
                           Arr(<<Rec(<<<<"type", L("Cash")>>, <<"amount", Str(amount)>>,
                                       <<"count", N(1)>>>>)>>)>>,
                         <<"debit_breakdown", Arr(<<>>)>>>>)>>>>))

InitCurrency ==
    /\ \E n \in 0..MaxAmountLen :
          \E amount \in [1..n -> AmountChars] : response = CurrencyBundle(amount)
    /\ NotRun

NextCurrency == MapSections

SpecCurrency == InitCurrency /\ [][NextCurrency]_vars

\* the amount text of the bundle's credit breakdown entry
AmountText == response.v.excel_data.v.transaction_summary.v.credit_breakdown.v[1].v.amount.v

\* the currency text the named section shows for the entry
RenderedAmount(key) == Between(ContentOf(key), " (", ", ")

\* C4: an amount text that does not parse as a number (here: one without
\* any digit, "" included) is rendered as "$0.00", and the call returns.
C4_UnparsableIsZero ==
    (schema = "sections" /\ \A i \in DOMAIN AmountText : AmountText[i] \notin DigitSet) =>
        /\ outcome = "returned"
        /\ RenderedAmount("activity_summary") = <<"$", "0", ".", "0", "0">>
        /\ RenderedAmount("suspicious_activity") = <<"$", "0", ".", "0", "0">>

\* the empty amount text rendered as "$NaN"
C4_Witness ==
    /\ schema = "sections"
    /\ AmountText = <<>>
    /\ RenderedAmount("activity_summary") = <<"$", "N", "a", "N">>
    /\ RenderedAmount("suspicious_activity") = <<"$", "N", "a", "N">>

----------------------------------------------------------------------------
(* totalCredits and totalDebits *)

MaxRows == 2

Row(label, total) == Rec(<<<<"Row Labels", Str(label)>>, <<"Total", total>>>>)

\* the rows the summary tables are drawn from: three grand-total rows in
\* different letter case, a category row, and a row without a label
TotalsRowKinds ==
    <<Row(<<"G", "r", "a", "n", "d", " ", "T", "o", "t", "a", "l">>, N(700)),
      Row(<<"A", "L", "L", " ", "G", "R", "A", "N", "D", " ", "T", "O", "T", "A", "L", ":">>,
          N(900)),
      Row(<<"g", "r", "a", "n", "d", " ", "t", "o", "t", "a", "l">>, N(0)),
      Row(<<"W", "i", "r", "e", "s">>, N(50)),
      Rec(<<<<"Total", N(60)>>>>)>>

\* the rows whose label contains "grand total" in some letter case
GrandTotalKinds == {1, 2, 3}

\* the category summary: absent, without totals, with totals, with zero totals
TotalsCategoryKinds ==
    <<Undefined,
      Rec(<<<<"category_summary", EmptyObj>>>>),
      Rec(<<<<"category_summary",
              Rec(<<<<"total_credits", N(400)>>, <<"total_debits", N(450)>>>>)>>>>),
      Rec(<<<<"category_summary",
              Rec(<<<<"total_credits", N(0)>>, <<"total_debits", N(0)>>>>)>>>>)>>

\* the legacy transaction summary: absent, with totals
TotalsLegacyKinds ==
    <<Undefined, Rec(<<<<"total_credits", N(500)>>, <<"total_debits", N(550)>>>>)>>

TotalsBundle(creditRows, debitRows, category, legacy) ==
    Bundle(Rec(<<<<"case_number", L("2024-001")>>>>),
           Rec(<<<<"activity_summary_tables",
                   Rec(<<<<"credit_summary", Arr(creditRows)>>,
                         <<"debit_summary", Arr(debitRows)>>>>)>>,
                 <<"transactions_summary", category>>,
                 <<"transaction_summary", legacy>>>>))

InitTotals ==
    /\ \E n \in 0..MaxRows :
          \E cs \in [1..n -> DOMAIN TotalsRowKinds] :
             \E m \in 0..1 :
                \E ds \in [1..m -> DOMAIN TotalsRowKinds] :
                   \E c \in DOMAIN TotalsCategoryKinds :
                      \E g \in DOMAIN TotalsLegacyKinds :
                         response = TotalsBundle([i \in 1..n |-> TotalsRowKinds[cs[i]]],
                                                 [i \in 1..m |-> TotalsRowKinds[ds[i]]],
                                                 TotalsCategoryKinds[c],
                                                 TotalsLegacyKinds[g])
    /\ NotRun

NextTotals == MapSections

SpecTotals == InitTotals /\ [][NextTotals]_vars

\* the currency text of the amounts the bundles carry
AmountRendering(amount) ==
    CASE amount = N(0) -> <<"$", "0", ".", "0", "0">>
      [] amount = N(400) -> <<"$", "4", "0", "0", ".", "0", "0">>
      [] amount = N(450) -> <<"$", "4", "5", "0", ".", "0", "0">>
      [] amount = N(500) -> <<"$", "5", "0", "0", ".", "0", "0">>
      [] amount = N(550) -> <<"$", "5", "5", "0", ".", "0", "0">>
      [] amount = N(700) -> <<"$", "7", "0", "0", ".", "0", "0">>
      [] amount = N(900) -> <<"$", "9", "0", "0", ".", "0", "0">>

\* the rows of a summary table of the bundle
TableRows(tableKey) == response.v.excel_data.v.activity_summary_tables.v[tableKey].v

IsGrandTotalKind(row) == \E k \in GrandTotalKinds : TotalsRowKinds[k] = row

HasGrandTotal(tableKey) ==
    \E i \in DOMAIN TableRows(tableKey) : IsGrandTotalKind(TableRows(tableKey)[i])

\* the first grand-total row of a table, in table order
FirstGrandTotal(tableKey) ==
    TableRows(tableKey)[CHOOSE i \in DOMAIN TableRows(tableKey) :
                           /\ IsGrandTotalKind(TableRows(tableKey)[i])
                           /\ \A j \in 1..(i - 1) : ~IsGrandTotalKind(TableRows(tableKey)[j])]

\* the totals the activity summary reports
ReportedCredits ==
    Between(ContentOf("activity_summary"), " included total credits of ", " and total debits of ")
ReportedDebits == Between(ContentOf("activity_summary"), " and total debits of ", ". ")

\* C5: when a summary table has a grand-total row, in any letter case, the
\* activity summary reports that row's Total, whatever totals the category
\* summary and the legacy transaction summary carry; of several such rows
\* the first in table order counts.
C5_GrandTotalRowPreferred ==
    schema = "sections" =>
        /\ HasGrandTotal("credit_summary") =>
              ReportedCredits = AmountRendering(FirstGrandTotal("credit_summary").v.Total)
        /\ HasGrandTotal("debit_summary") =>
              ReportedDebits = AmountRendering(FirstGrandTotal("debit_summary").v.Total)

\* two grand-total rows with different totals, in upper case first, beside a
\* category summary and a legacy summary with other totals
C5_Witness ==
    /\ schema = "sections"
    /\ TableRows("credit_summary") = <<TotalsRowKinds[2], TotalsRowKinds[1]>>
    /\ Dot(response.v.excel_data, "transactions_summary") = TotalsCategoryKinds[3]
    /\ Dot(response.v.excel_data, "transaction_summary") = TotalsLegacyKinds[2]
    /\ ReportedCredits = <<"$", "9", "0", "0", ".", "0", "0">>

\* the total of a summary record of the bundle, undefined when the record
\* or the total is missing
CategoryTotal(totalKey) ==
    QDot(QDot(QDot(response.v.excel_data, "transactions_summary"), "category_summary"), totalKey)
LegacyTotal(totalKey) == QDot(QDot(response.v.excel_data, "transaction_summary"), totalKey)

\* the first non-zero total in the order category summary, legacy summary, 0
PrecedenceTotal(totalKey) ==
    IF Truthy(CategoryTotal(totalKey)) THEN CategoryTotal(totalKey)
    ELSE IF Truthy(LegacyTotal(totalKey)) THEN LegacyTotal(totalKey)
    ELSE N(0)

\* C6: without a grand-total row, the reported total is the first non-zero
\* of the category summary's total, the legacy transaction summary's total
\* and 0.
C6_CategoryThenLegacyThenZero ==
    schema = "sections" =>
        /\ ~HasGrandTotal("credit_summary") =>
              ReportedCredits = AmountRendering(PrecedenceTotal("total_credits"))
        /\ ~HasGrandTotal("debit_summary") =>
              ReportedDebits = AmountRendering(PrecedenceTotal("total_debits"))

\* a category summary without totals hides the legacy total of 500.00
C6_Witness ==
    /\ schema = "sections"
    /\ TableRows("credit_summary") = <<>>
    /\ Dot(response.v.excel_data, "transactions_summary") = TotalsCategoryKinds[2]
    /\ Dot(response.v.excel_data, "transaction_summary") = TotalsLegacyKinds[2]
    /\ ReportedCredits = <<"$", "0", ".", "0", "0">>

----------------------------------------------------------------------------
(* The primary transaction types *)

MaxEntries == 4

EntryNames == <<"T1", "T2", "T3", "T4", "T5", "T6">>
EntryAmounts == {100, 200, 300}

\* entry i of the category summary, and of the legacy credit breakdown
CategoryEntry(i, amount) ==
    Rec(<<<<"Custom Language Transaction Category", L(EntryNames[i])>>,
          <<"Credits ($ Total)", N(amount)>>, <<"Credits (# Transactions)", N(1)>>,
          <<"Debits ($ Total)", N(0)>>, <<"Debits (# Transactions)", N(0)>>>>)
BreakdownEntry(i, amount) ==
    Rec(<<<<"type", L(EntryNames[i])>>, <<"amount", N(amount)>>, <<"count", N(1)>>>>)

\* the bundle whose credit entries carry the amounts, in the category
\* summary or in the legacy transaction summary
TopBundle(source, amounts) ==
    Bundle(Rec(<<<<"case_number", L("2024-001")>>>>),
           IF source = "category"
           THEN Rec(<<<<"transactions_summary",
                        Rec(<<<<"category_summary",
                                Rec(<<<<"categories",
                                        Arr([i \in DOMAIN amounts |->
                                                CategoryEntry(i, amounts[i])])>>>>)>>>>)>>>>)
           ELSE Rec(<<<<"transaction_summary",
                        Rec(<<<<"credit_breakdown",
                                Arr([i \in DOMAIN amounts |->
                                        BreakdownEntry(i, amounts[i])])>>,
                              <<"debit_breakdown", Arr(<<>>)>>>>)>>>>))

InitTop ==
    /\ \E n \in 0..MaxEntries :
          \E amounts \in [1..n -> EntryAmounts] :
             \E source \in {"category", "legacy"} : response = TopBundle(source, amounts)
    /\ NotRun

NextTop == MapSections

SpecTop == InitTop /\ [][NextTop]_vars

\* the bundle's credit entries and the amount of each, in input order
IsLegacySource == "transaction_summary" \in DOMAIN response.v.excel_data.v
CreditEntries ==
    IF IsLegacySource
    THEN response.v.excel_data.v.transaction_summary.v.credit_breakdown.v
    ELSE response.v.excel_data.v.transactions_summary.v.category_summary.v.categories.v
CreditAmount(i) ==
    IF IsLegacySource THEN CreditEntries[i].v.amount.v
    ELSE CreditEntries[i].v["Credits ($ Total)"].v

\* how many entries come before entry i when the entries are ordered by
\* descending amount, equal amounts in input order
RankOf(i) ==
    Cardinality({j \in DOMAIN CreditEntries :
                    \/ CreditAmount(j) > CreditAmount(i)
                    \/ (CreditAmount(j) = CreditAmount(i) /\ j < i)})

\* the names of the three largest entries, largest first
TopThreeNames ==
    [r \in 1..Min(3, Len(CreditEntries)) |->
        EntryNames[CHOOSE i \in DOMAIN CreditEntries : RankOf(i) = r - 1]]

\* the entry names the named section lists, in the order it lists them
ListedNames(key) == SelectSeq(ContentOf(key), LAMBDA x : x \in Range(EntryNames))

\* C7: the credit types the activity summary lists are the three entries
\* with the largest amount, largest first, equal amounts in input order,
\* whether the entries come from the category summary or from the legacy
\* credit breakdown.
C7_TopThreeDescending ==
    schema = "sections" => ListedNames("activity_summary") = TopThreeNames

\* the legacy credit breakdown 100, 300, 200, 300 listed in input order
C7_Witness ==
    /\ schema = "sections"
    /\ IsLegacySource
    /\ [i \in DOMAIN CreditEntries |-> CreditAmount(i)]
          = <<Cents(100), Cents(300), Cents(200), Cents(300)>>
    /\ ListedNames("activity_summary") = <<"T1", "T2", "T3">>
    /\ ListedNames("suspicious_activity") = <<"T1", "T2", "T3">>
    /\ TopThreeNames = <<"T2", "T4", "T3">>

----------------------------------------------------------------------------
(* The primary subject name *)

MaxSubjects == 3

SubjectNames == <<"S1", "S2", "S3", "S4", "S5">>

\* subject i, flagged primary or not, with or without a name
SubjectEntry(i, primary, named) ==
    Rec(<<<<"name", Opt(named, L(SubjectNames[i]))>>,
          <<"is_primary", Opt(primary, Bool(TRUE))>>>>)

SubjectBundle(subjects) ==
    Bundle(Rec(<<<<"case_number", L("2024-001")>>, <<"subjects", subjects>>>>),
           Rec(<<<<"activity_summary", Rec(<<<<"total_amount", N(900)>>>>)>>>>))

InitSubject ==
    /\ \/ response = SubjectBundle(Undefined)
       \/ \E n \in 0..MaxSubjects :
             \E primary \in [1..n -> BOOLEAN] :
                \E named \in [1..n -> BOOLEAN] :
                   response = SubjectBundle(Arr([i \in 1..n |->
                                                    SubjectEntry(i, primary[i], named[i])]))
    /\ NotRun

NextSubject == MapSections \/ MapNarrative

SpecSubject == InitSubject /\ [][NextSubject]_vars

\* the bundle's subjects, none when the list is absent
CaseSubjects == Or(QDot(response.v.case_data, "subjects"), Arr(<<>>)).v

IsFlaggedPrimary(i) == "is_primary" \in DOMAIN CaseSubjects[i].v

\* the subject the rule picks: the first one flagged primary, else the one
\* at index 0
PickedSubject ==
    IF \E i \in DOMAIN CaseSubjects : IsFlaggedPrimary(i)
    THEN CaseSubjects[CHOOSE i \in DOMAIN CaseSubjects :
                         IsFlaggedPrimary(i) /\ \A j \in 1..(i - 1) : ~IsFlaggedPrimary(j)]
    ELSE CaseSubjects[1]

\* the name a section shows after the given marker
ShownName(key, marker) == After(ContentOf(key), marker)

\* a section shows the name the rule gives: the picked subject's name when
\* it has one, "Unknown Subject" when there is no subject
ShowsRuleName(name) ==
    /\ CaseSubjects = <<>> => name = "Unknown Subject"
    /\ (CaseSubjects # <<>> /\ "name" \in DOMAIN PickedSubject.v) =>
          name = PickedSubject.v.name.v[1]

----------------------------------------------------------------------------
(* Open and closed accounts *)

\* the statuses an account is given: absent, "Open", "Closed", "CLOSED",
\* "Account closed" and "Clos"
AccountStatuses ==
    <<Undefined,
      Str(<<"O", "p", "e", "n">>),
      Str(<<"C", "l", "o", "s", "e", "d">>),
      Str(<<"C", "L", "O", "S", "E", "D">>),
      Str(<<"A", "c", "c", "o", "u", "n", "t", " ", "c", "l", "o", "s", "e", "d">>),
      Str(<<"C", "l", "o", "s">>)>>

\* the statuses that contain "closed" in some letter case
ClosedStatusKinds == {3, 4, 5}

AccountBundle(status, closed, reasoned, opened, typed) ==
    Bundle(Rec(<<<<"case_number", L("2024-001")>>,
                 <<"account_info",
                   Rec(<<<<"account_number", L("1234567890")>>,
                         <<"status", status>>,
                         <<"close_date", Opt(closed, L("03/04/2024"))>>,
                         <<"closure_reason", Opt(reasoned, L("Fraud"))>>,
                         <<"open_date", Opt(opened, L("01/02/2020"))>>,
                         <<"account_type", Opt(typed, L("checking"))>>>>)>>>>),
           EmptyObj)

InitAccount ==
    /\ \E k \in DOMAIN AccountStatuses :
          \E closed \in BOOLEAN :
             \E reasoned \in BOOLEAN :
                \E opened \in BOOLEAN :
                   \E typed \in BOOLEAN :
                      response = AccountBundle(AccountStatuses[k], closed, reasoned,
                                               opened, typed)
    /\ NotRun

NextAccount == MapSections \/ MapNarrative

SpecAccount == InitAccount /\ [][NextAccount]_vars

AccountInfo == response.v.case_data.v.account_info.v

\* the account's status contains "closed" in some letter case
StatusSaysClosed ==
    /\ "status" \in DOMAIN AccountInfo
    /\ \E k \in ClosedStatusKinds : AccountStatuses[k] = AccountInfo.status

\* the named section has the fragment
Says(key, fragment) == \E i \in DOMAIN ContentOf(key) : ContentOf(key)[i] = fragment

\* C9: the account is described as closed exactly when its status contains
\* "closed" in some letter case, with or without a close_date: by the
\* subject/account-information and the retain/close section of the
\* 11-section mapper and by the account/subject section of the 5-section
\* mapper.
C9_ClosedByStatusAlone ==
    /\ schema = "sections" =>
          /\ StatusSaysClosed <=> Says("subject_account_info", " and was closed on ")
          /\ ~StatusSaysClosed <=> Says("subject_account_info", " and remains open.")
          /\ ~StatusSaysClosed <=> (sections["retain_close"].content = RetainText)
    /\ schema = "narrative" =>
          /\ StatusSaysClosed <=> Says("account_subject_info", "was closed on ")
          /\ ~StatusSaysClosed <=> Says("account_subject_info", "remains open.")

\* status "Closed" without a close_date: the retain/close section takes the
\* closure branch and the subject/account section says the account remains
\* open
C9_Witness ==
    /\ schema = "sections"
    /\ "status" \in DOMAIN AccountInfo
    /\ AccountInfo.status = AccountStatuses[3]
    /\ "close_date" \notin DOMAIN AccountInfo
    /\ sections["retain_close"].content # RetainText
    /\ Says("subject_account_info", " and remains open.")

----------------------------------------------------------------------------
(* The transaction samples *)

MaxSamples == 6

\* the dates that tell the sampled transactions apart
SampleDates == <<"D1", "D2", "D3", "D4", "D5", "D6", "D7", "D8">>

\* sampled transaction i: bare, with a type, or with a type and a description
SampleEntry(i, kind) ==
    Rec(<<<<"date", L(SampleDates[i])>>,
          <<"amount", IF kind = 1 THEN N(9500) ELSE Num(123456)>>,
          <<"type", Opt(kind >= 2, Str(<<"W", "i", "r", "e">>))>>,
          <<"description", Opt(kind = 3, L("outgoing transfer"))>>>>)

SamplesBundle(shape, txns) ==
    Bundle(Rec(<<<<"case_number", L("2024-001")>>>>),
           Rec(<<<<"unusual_activity",
                   Opt(shape # "no_unusual_activity",
                       Rec(<<<<"transactions", Opt(shape = "list", Arr(txns))>>>>))>>>>))

InitSamples ==
    /\ \E n \in 0..MaxSamples :
          \E kinds \in [1..n -> 1..3] :
             \E shape \in {"list", "no_transactions", "no_unusual_activity"} :
                /\ shape = "list" \/ n = 0
                /\ response = SamplesBundle(shape, [i \in 1..n |-> SampleEntry(i, kinds[i])])
    /\ NotRun

NextSamples == MapSections \/ MapNarrative

SpecSamples == InitSamples /\ [][NextSamples]_vars

\* the samples text: the transaction_samples content of the 11-section
\* mapper, the end of the analysis section of the 5-section mapper
SamplesShown ==
    IF schema = "sections" THEN ContentOf("transaction_samples")
    ELSE LET text == ContentOf("suspicious_activity_analysis")
         IN  SubSeq(text, IndexOf(text, ".\n\n") + 1, Len(text))

\* the positions of the samples text that hold a transaction's date
DatePositions == {i \in DOMAIN SamplesShown : SamplesShown[i] \in Range(SampleDates)}

\* C10: the samples text renders the first min(5, n) transactions of the
\* list, in input order; every segment but the last is closed by ';', the
\* last by '.'; without a transaction the text is the fixed sentence.
C10_FirstFiveSamples ==
    schema # "none" =>
        LET n == Len(SampledTransactions)
            k == Min(5, n)
        IN  /\ n = 0 => SamplesShown = <<"No suspicious transaction samples available.">>
            /\ n > 0 =>
                  /\ SamplesShown[1] = "A sample of the suspicious transactions includes:"
                  /\ SelectSeq(SamplesShown, LAMBDA x : x \in Range(SampleDates))
                        = SubSeq(SampleDates, 1, k)
                  /\ \A i \in DatePositions :
                        SamplesShown[i - 1] = " "
                        /\ (i > 3 => SamplesShown[i - 2] = ";")
                  /\ Cardinality({i \in DOMAIN SamplesShown : SamplesShown[i] = ";"}) = k - 1
                  /\ SamplesShown[Len(SamplesShown)] = "."

\* six transactions of which five are rendered, by either mapper
C10_Witness ==
    /\ schema = "narrative"
    /\ Len(SampledTransactions) = 6
    /\ Cardinality(DatePositions) = 5
    /\ SamplesShown[Len(SamplesShown)] = "."

----------------------------------------------------------------------------
(* The prior cases *)

MaxPrior == 3

PriorNumbers == <<"P1", "P2", "P3", "P4", "P5">>
PriorDates == <<"F1", "F2", "F3", "F4", "F5">>

\* prior case i, with or without a case number and a filing date
PriorEntry(i, numbered, dated) ==
    Rec(<<<<"case_number", Opt(numbered, L(PriorNumbers[i]))>>,
          <<"filing_date", Opt(dated, L(PriorDates[i]))>>,
          <<"summary", L("prior summary")>>,
          <<"alert_id", Arr(<<L("A-0")>>)>>>>)

\* the bundle whose case data carries the prior cases; the list, or the
\* case data that holds it, can be missing
PriorBundle(shape, priorCases) ==
    Bundle(Opt(shape # "no_case_data",
               Rec(<<<<"case_number", L("2024-001")>>,
                     <<"prior_cases", Opt(shape = "list", Arr(priorCases))>>>>)),
           EmptyObj)

InitPrior ==
    /\ \E n \in 0..MaxPrior :
          \E numbered \in [1..n -> BOOLEAN] :
             \E dated \in [1..n -> BOOLEAN] :
                \E shape \in {"list", "no_prior_cases", "no_case_data"} :
                   /\ shape = "list" \/ n = 0
                   /\ response = PriorBundle(shape, [i \in 1..n |->
                                     PriorEntry(i, numbered[i], dated[i])])
    /\ NotRun

NextPrior == MapNarrative \/ MapRecommendation

SpecPrior == InitPrior /\ [][NextPrior]_vars

\* the bundle's prior cases, none when the list is missing
PriorCases == Or(QDot(QDot(response, "case_data"), "prior_cases"), Arr(<<>>)).v

\* the prior-cases text: the prior_cases content of the 5-section mapper, the
\* prior_sars content of the 12-section mapper
PriorText == IF schema = "narrative" THEN ContentOf("prior_cases") ELSE ContentOf("prior_sars")

\* C11: when the prior-case list is empty or absent, the prior-cases text
\* is exactly "No prior SARs were identified for the subjects or account.",
\* in the prior_cases section of the 5-section mapper and in the prior_sars
\* section of the 12-section mapper.
C11_NoPriorCasesLiteral ==
    (schema # "none" /\ PriorCases = <<>>) =>
        PriorText = <<"No prior SARs were identified for the subjects or account.">>

\* the empty list handed to the 12-section mapper
C11_Witness ==
    /\ schema = "recommendation"
    /\ "prior_cases" \in DOMAIN response.v.case_data.v
    /\ PriorCases = <<>>
    /\ ContentOf("prior_sars")
          = <<"No prior SARs were identified for the subjects or account.">>

\* the fragment that opens a block of the prior-cases text
BlockMarker == IF schema = "narrative" THEN "Case # " ELSE "Prior SAR #"

BlockStarts == {i \in DOMAIN PriorText : PriorText[i] = BlockMarker}

\* the position where block n starts, and the fragments of block n
BlockStart(n) ==
    CHOOSE i \in BlockStarts : Cardinality({j \in BlockStarts : j < i}) = n - 1
BlockOf(n) ==
    SubSeq(PriorText, BlockStart(n),
           IF n = Cardinality(BlockStarts) THEN Len(PriorText) ELSE BlockStart(n + 1) - 1)

\* the case numbers and the filing dates a block shows
NumbersIn(block) == SelectSeq(block, LAMBDA x : x \in Range(PriorNumbers))
DatesIn(block) ==
    SelectSeq(block, LAMBDA x : x \in Range(PriorDates) \cup {"Unknown filing date"})

\* C12: for a non-empty prior-case list the text has one block per prior
\* case, in input order; block i shows the case number and the filing date
\* of prior case i and of no other, with "Unknown filing date" exactly when
\* prior case i has no filing date.
C12_OneBlockPerPriorCase ==
    (schema # "none" /\ PriorCases # <<>>) =>
        /\ Cardinality(BlockStarts) = Len(PriorCases)
        /\ \A i \in DOMAIN PriorCases :
              /\ NumbersIn(BlockOf(i))
                    = (IF "case_number" \in DOMAIN PriorCases[i].v
                       THEN <<PriorNumbers[i]>> ELSE <<>>)
              /\ DatesIn(BlockOf(i))
                    = (IF "filing_date" \in DOMAIN PriorCases[i].v
                       THEN <<PriorDates[i]>> ELSE <<"Unknown filing date">>)

\* three prior cases, the second without a filing date, rendered by the
\* 5-section mapper as three blocks
C12_Witness ==
    /\ schema = "narrative"
    /\ PriorCases = <<PriorEntry(1, TRUE, TRUE), PriorEntry(2, TRUE, FALSE),
                      PriorEntry(3, TRUE, TRUE)>>
    /\ Cardinality(BlockStarts) = 3
    /\ DatesIn(BlockOf(2)) = <<"Unknown filing date">>
    /\ NumbersIn(BlockOf(3)) = <<"P3">>

----------------------------------------------------------------------------
(* The alerting activity *)

MaxAlerts == 3

AlertTexts == <<"alert one", "alert two", "alert three", "alert four", "alert five">>

\* alert i, with or without a description
AlertEntry(i, described) ==
    Rec(<<<<"alert_id", L("A-1")>>, <<"description", Opt(described, L(AlertTexts[i]))>>>>)

\* the bundle whose case data carries alertInfo (a list, a single alert, or
\* nothing); the bundle can carry an alert of its own beside the case data
AlertBundle(alertInfo, withAccount, withOwnAlert) ==
    Rec(<<<<"case_data",
            Rec(<<<<"case_number", L("2024-001")>>,
                  <<"account_info",
                    Opt(withAccount, Rec(<<<<"account_number", L("1234567890")>>,
                                           <<"account_type", L("checking")>>>>))>>,
                  <<"alert_info", alertInfo>>>>)>>,
          <<"excel_data", EmptyObj>>,
          <<"alert_info", Opt(withOwnAlert, AlertEntry(5, TRUE))>>>>)

InitAlert ==
    /\ \E withAccount \in BOOLEAN :
          \E withOwnAlert \in BOOLEAN :
             \/ response = AlertBundle(Undefined, withAccount, withOwnAlert)
             \/ \E described \in BOOLEAN :
                   response = AlertBundle(AlertEntry(1, described), withAccount, withOwnAlert)
             \/ \E n \in 0..MaxAlerts :
                   \E described \in [1..n -> BOOLEAN] :
                      response = AlertBundle(Arr([i \in 1..n |-> AlertEntry(i, described[i])]),
                                             withAccount, withOwnAlert)
    /\ NotRun

NextAlert == MapRecommendation

SpecAlert == InitAlert /\ [][NextAlert]_vars

\* the alert info of the case data, and the alert that stands first: the
\* single alert, or the first of the list
CaseAlertInfo == Dot(response.v.case_data, "alert_info")
FirstAlert ==
    IF CaseAlertInfo.t = "array" THEN Idx(CaseAlertInfo, 0) ELSE CaseAlertInfo

\* the alerting-activity text for an alert: its description when it has
\* one, nothing when there is no alert or no description
AlertingTextFor(alert) ==
    <<"Case Number: ", "2024-001", "\nAccount Number: ">>
    \o (IF "account_info" \in DOMAIN response.v.case_data.v THEN <<"1234567890">> ELSE <<>>)
    \o <<"\nAccount Type: ">>
    \o (IF "account_info" \in DOMAIN response.v.case_data.v THEN <<"checking">> ELSE <<>>)
    \o <<"\n\nAlert Information:\n">>
    \o (IF alert.t = "object" /\ "description" \in DOMAIN alert.v
        THEN alert.v.description.v ELSE <<>>)
    \o <<"\n\nThis case was selected for review due to the above alerting activity that indicates potential suspicious behavior requiring further investigation.">>

\* C13: the alerting-activity text is the text for the alert that stands
\* first, whether the alert info is that alert alone or a list that starts
\* with it: a single alert and a list with the same first alert give the
\* same text, the later alerts of a list never show, and an empty list or
\* a first alert without description gives an empty description.
C13_FirstAlertOnly ==
    schema = "recommendation" =>
        ContentOf("alerting_activity") = AlertingTextFor(FirstAlert)

\* three alerts of which the first has no description and the later ones
\* have: the description stays empty
C13_Witness ==
    /\ schema = "recommendation"
    /\ CaseAlertInfo = Arr(<<AlertEntry(1, FALSE), AlertEntry(2, TRUE), AlertEntry(3, TRUE)>>)
    /\ ContentOf("alerting_activity") = AlertingTextFor(AlertEntry(1, FALSE))
    /\ ~Says("alerting_activity", "alert two")

----------------------------------------------------------------------------
(* The indicator bullets *)

\* the bullets formatSuspiciousActivity has for each branch of the ladder
ActivityBullets ==
    [structuring |->
        {"- Multiple cash transactions just below CTR threshold\n",
         "- Pattern of transactions designed to evade reporting requirements\n",
         "- Structured transactions to avoid detection\n"},
     wire |->
        {"- High volume of wire/ACH transactions\n",
         "- Transfers to/from high-risk jurisdictions or entities\n",
         "- Rapid movement of funds through the account\n"},
     cash |->
        {"- Large cash deposits without apparent business purpose\n",
         "- Cash deposits followed by immediate withdrawals\n",
         "- No legitimate business reason for cash activity volume\n"},
     generic |->
        {"- Unusual transaction patterns inconsistent with customer profile\n",
         "- Transactions lacking legitimate business purpose\n",
         "- Activity inconsistent with stated account purpose\n"}]

\* the bullets formatInvestigationSummary has for each branch
SummaryBullets ==
    [structuring |-> IndicatorsStructuring.v[1],
     wire |-> IndicatorsWire.v[1],
     cash |-> IndicatorsCash.v[1],
     generic |-> IndicatorsDefault.v[1]]

Branches == {"structuring", "wire", "cash", "generic"}

\* the first matching branch of the ladder
FirstBranch ==
    IF KindCount(BelowThresholdKinds) >= 2 THEN "structuring"
    ELSE IF KindCount(WireAchKinds) >= 3 THEN "wire"
    ELSE IF KindCount(CashKinds) >= 3 THEN "cash"
    ELSE "generic"

\* the bullets of any branch a section shows
ActivityBulletsShown ==
    {x \in Range(ContentOf("suspicious_activity")) :
        \E b \in Branches : x \in ActivityBullets[b]}
SummaryBulletsShown ==
    {x \in Range(ContentOf("investigation_summary")) :
        \E b \in Branches : x = SummaryBullets[b]}

\* C14: the indicator bullets of the suspicious-activity section and of the
\* investigation summary are the bullets of the first matching branch
\* (structuring, wire/ACH, cash, generic) and of no other branch.
C14_BulletsOfOneBranch ==
    schema # "none" =>
        /\ ActivityBulletsShown = ActivityBullets[FirstBranch]
        /\ SummaryBulletsShown = {SummaryBullets[FirstBranch]}

\* three wire transfers of 9999.99: the suspicious-activity section shows
\* the structuring and the wire bullets together, the investigation summary
\* the structuring bullets alone
C14_Witness ==
    /\ schema = "sections"
    /\ SampledTransactions = <<ClassifyKinds[2], ClassifyKinds[2], ClassifyKinds[2]>>
    /\ ActivityBulletsShown = ActivityBullets.structuring \cup ActivityBullets.wire
    /\ SummaryBulletsShown = {SummaryBullets.structuring}

----------------------------------------------------------------------------
(* The case-info header *)

MaxFullData == 3

\* the sections full_data is drawn from: the Case Information without
\* relevant accounts, with none, with one and with two of them, another
\* section that lists relevant accounts of its own, and one that does not
FullDataKinds ==
    <<Rec(<<<<"section", L("Case Information")>>>>),
      Rec(<<<<"section", L("Case Information")>>, <<"Relevant Accounts", Arr(<<>>)>>>>),
      Rec(<<<<"section", L("Case Information")>>,
            <<"Relevant Accounts", Arr(<<L("R1")>>)>>>>),
      Rec(<<<<"section", L("Case Information")>>,
            <<"Relevant Accounts", Arr(<<L("R2"), L("R3")>>)>>>>),
      Rec(<<<<"section", L("Alerting Details")>>,
            <<"Relevant Accounts", Arr(<<L("X9")>>)>>>>),
      Rec(<<<<"section", L("Scope of Review")>>>>)>>

CaseInformationKinds == {1, 2, 3, 4}

\* account_info: absent, without an account number, with one
HeaderAccountKinds ==
    <<Undefined, Rec(<<<<"account_type", L("checking")>>>>),
      Rec(<<<<"account_number", L("1234567890")>>>>)>>

\* the response of getSections: with or without a ready caseInfo, with or
\* without case_data
HeaderResponse(status, ready, caseData) ==
    Rec(<<<<"status", L(status)>>,
          <<"caseInfo",
            Opt(ready, Rec(<<<<"caseNumber", L("2024-001")>>,
                             <<"accountNumber", L("ready account")>>>>))>>,
          <<"case_data", caseData>>>>)

\* full_data names each section once: at most one Case Information
InitCaseInfo ==
    /\ \E status \in {"success", "error"} :
          \E ready \in BOOLEAN :
             \/ response = HeaderResponse(status, ready, Undefined)
             \/ \E a \in DOMAIN HeaderAccountKinds :
                   \/ response = HeaderResponse(status, ready,
                                     Rec(<<<<"case_number", L("2024-001")>>,
                                           <<"account_info", HeaderAccountKinds[a]>>>>))
                   \/ \E n \in 0..MaxFullData :
                         \E ks \in [1..n -> DOMAIN FullDataKinds] :
                            /\ Cardinality({i \in 1..n : ks[i] \in CaseInformationKinds}) <= 1
                            /\ response = HeaderResponse(status, ready,
                                   Rec(<<<<"case_number", L("2024-001")>>,
                                         <<"account_info", HeaderAccountKinds[a]>>,
                                         <<"full_data",
                                           Arr([i \in 1..n |-> FullDataKinds[ks[i]]])>>>>))
    /\ NotRun

NextCaseInfo == FetchSections

SpecCaseInfo == InitCaseInfo /\ [][NextCaseInfo]_vars

\* the sections of case_data.full_data, none when it is absent
FullData == Or(QDot(QDot(response, "case_data"), "full_data"), Arr(<<>>)).v

\* the relevant accounts of the Case Information section, none when the
\* section or its list is absent
RelevantAccounts ==
    IF \E i \in DOMAIN FullData :
          /\ FullData[i].v.section = L("Case Information")
          /\ "Relevant Accounts" \in DOMAIN FullData[i].v
    THEN FullData[CHOOSE i \in DOMAIN FullData :
                     /\ FullData[i].v.section = L("Case Information")
                     /\ "Relevant Accounts" \in DOMAIN FullData[i].v].v["Relevant Accounts"].v
    ELSE <<>>

\* account_info.account_number of the case data, undefined when absent
PrimaryAccountNumber == QDot(QDot(QDot(response, "case_data"), "account_info"), "account_number")

\* the response is a success without a ready caseInfo and with case_data
ExtractsCaseInfo ==
    /\ response.v.status = L("success")
    /\ "caseInfo" \notin DOMAIN response.v
    /\ "case_data" \in DOMAIN response.v

----------------------------------------------------------------------------
(* The employment clause *)

MaxEmployed == 2

Occupations == <<"O1", "O2", "O3", "O4">>
Employers == <<"E1", "E2", "E3", "E4">>

\* subject i with or without occupation, employer and account relationship
EmployedEntry(i, occupied, employed, related) ==
    Rec(<<<<"name", L(SubjectNames[i])>>,
          <<"occupation", Opt(occupied, L(Occupations[i]))>>,
          <<"employer", Opt(employed, L(Employers[i]))>>,
          <<"account_relationship", Opt(related, L("owner"))>>>>)

InitEmployed ==
    /\ \E n \in 0..MaxEmployed :
          \E occupied \in [1..n -> BOOLEAN] :
             \E employed \in [1..n -> BOOLEAN] :
                \E related \in [1..n -> BOOLEAN] :
                   response = SubjectBundle(Arr([i \in 1..n |->
                                  EmployedEntry(i, occupied[i], employed[i], related[i])]))
    /\ NotRun

NextEmployed == MapSections \/ MapNarrative

SpecEmployed == InitEmployed /\ [][NextEmployed]_vars

\* the account/subject-information text of the revision that ran
SubjectInfoText ==
    IF schema = "sections" THEN ContentOf("subject_account_info")
    ELSE ContentOf("account_subject_info")

\* the positions of SubjectInfoText that hold the fragment
PositionsOf(fragment) == {i \in DOMAIN SubjectInfoText : SubjectInfoText[i] = fragment}

\* the fragment after position i, "" at the end of the text
NextFragment(i) == IF i + 1 \in DOMAIN SubjectInfoText THEN SubjectInfoText[i + 1] ELSE ""

HasField(i, field) == field \in DOMAIN CaseSubjects[i].v

\* C16: the account/subject-information text has one employment clause per
\* subject that has an occupation or an employer and none for the others;
\* "employed as a" is always followed by an occupation and "at" by an
\* employer, and "at" occurs only for the subjects that have an employer.
C16_NoBlankEmployment ==
    schema # "none" =>
        /\ Cardinality(PositionsOf(" is employed as a "))
              = Cardinality({i \in DOMAIN CaseSubjects :
                                HasField(i, "occupation") \/ HasField(i, "employer")})
        /\ \A i \in PositionsOf(" is employed as a ") : NextFragment(i) \in Range(Occupations)
        /\ Cardinality(PositionsOf(" at "))
              = Cardinality({i \in DOMAIN CaseSubjects : HasField(i, "employer")})
        /\ \A i \in PositionsOf(" at ") : NextFragment(i) \in Range(Employers)

\* one subject with an employer and no occupation: "is employed as a"
\* is followed by " at E1" at once
C16_Witness ==
    /\ schema = "sections"
    /\ CaseSubjects = <<EmployedEntry(1, FALSE, TRUE, FALSE)>>
    /\ SubjectInfoText[2] = " is employed as a "
    /\ SubjectInfoText[3] = " at "
    /\ SubjectInfoText[4] = "E1"

----------------------------------------------------------------------------
(* The CTA nature of business *)

MaxCtaSubjects == 2

\* the occupations a subject is given: none, "Doctor", "DENTIST",
\* "Attorney", "lawyer", "Lawyer-Doctor", "Teacher" and "Doc"
OccupationKinds ==
    <<Undefined,
      Str(<<"D", "o", "c", "t", "o", "r">>),
      Str(<<"D", "E", "N", "T", "I", "S", "T">>),
      Str(<<"A", "t", "t", "o", "r", "n", "e", "y">>),
      Str(<<"l", "a", "w", "y", "e", "r">>),
      Str(<<"L", "a", "w", "y", "e", "r", "-", "D", "o", "c", "t", "o", "r">>),
      Str(<<"T", "e", "a", "c", "h", "e", "r">>),
      Str(<<"D", "o", "c">>)>>

\* the kinds that contain "doctor" or "dentist", and "attorney" or
\* "lawyer", in some letter case
HealthcareKinds == {2, 3, 6}
LegalKinds == {4, 5, 6}

CtaEntry(i, kind, primary) ==
    Rec(<<<<"name", L(SubjectNames[i])>>, <<"occupation", OccupationKinds[kind]>>,
          <<"is_primary", Opt(primary, Bool(TRUE))>>>>)

\* up to MaxCtaSubjects subjects, at most one of them flagged primary
InitCta ==
    /\ \E n \in 0..MaxCtaSubjects :
          \E kinds \in [1..n -> DOMAIN OccupationKinds] :
             \E flagged \in 0..n :
                response = SubjectBundle(Arr([i \in 1..n |->
                               CtaEntry(i, kinds[i], i = flagged)]))
    /\ NotRun

NextCta == MapSections \/ MapRecommendation

SpecCta == InitCta /\ [][NextCta]_vars

\* the picked subject's occupation is of one of the kinds
PickedOccupationIn(kinds) ==
    /\ "occupation" \in DOMAIN PickedSubject.v
    /\ \E k \in kinds : OccupationKinds[k] = PickedSubject.v.occupation

\* C17: the CTA section's nature of business is "Healthcare Professional"
\* when the primary subject's occupation contains "doctor" or "dentist" in
\* any letter case, else "Legal Professional" when it contains "attorney"
\* or "lawyer", else "Unknown", also when the subject has no occupation.
C17_NatureOfBusiness ==
    (schema # "none" /\ CaseSubjects # <<>>) =>
        After(ContentOf("cta"), "\nNature of Business: ")
            = (IF PickedOccupationIn(HealthcareKinds) THEN "Healthcare Professional"
               ELSE IF PickedOccupationIn(LegalKinds) THEN "Legal Professional"
               ELSE "Unknown")

\* the second subject is the primary one, a "Lawyer-Doctor", the first a
\* lawyer: healthcare wins
C17_Witness ==
    /\ schema = "sections"
    /\ CaseSubjects = <<CtaEntry(1, 5, FALSE), CtaEntry(2, 6, TRUE)>>
    /\ After(ContentOf("cta"), "Subject Name: ") = "S2"
    /\ After(ContentOf("cta"), "\nNature of Business: ") = "Healthcare Professional"

----------------------------------------------------------------------------
(* Missing values in the conclusions *)

\* the text shows a missing value as such: "undefined", "null" or "NaN", as
\* one fragment or spelled out in a currency text
ShowsMissingValue(text) ==
    \E i \in DOMAIN text :
        \/ text[i] \in {"undefined", "null", "NaN"}
        \/ /\ i + 2 \in DOMAIN text
           /\ text[i] = "N" /\ text[i + 1] = "a" /\ text[i + 2] = "N"

\* the conclusion sections of the revision that ran
ConclusionKeys ==
    IF schema = "narrative" THEN {"conclusion"}
    ELSE {"recommendation_conclusion", "sar_conclusion"}

\* C18: whatever keys and fields of the bundle are absent, the conclusion
\* and the SAR conclusion are composed and show no missing value as
\* "undefined", "null" or "NaN": each substitution falls back to the empty
\* string or to its default.
C18_NoUndefinedInConclusions ==
    schema # "none" =>
        \A k \in ConclusionKeys :
            /\ k \in DOMAIN sections
            /\ sections[k].content.t = "string"
            /\ ~ShowsMissingValue(ContentOf(k))

\* the empty bundle: the SAR conclusion is composed from the defaults alone
C18_Witness ==
    /\ schema = "sections"
    /\ response = EmptyObj
    /\ ContentOf("sar_conclusion")
          = <<"In conclusion, USB is reporting ", "$", "0", ".", "0", "0", " in ",
              "suspicious activity",
              " which gave the appearance of suspicious activity and were conducted by ",
              "Unknown Subject(s)", " in account number ", " from ", " through ",
              ". USB will conduct a follow-up review to monitor for continuing activity. All requests for supporting documentation can be sent to lawenforcementrequests@usbank.com referencing AML case number ",
              ".">>
    /\ After(ContentOf("recommendation_conclusion"), " by ") = "Unknown Subject(s)"

----------------------------------------------------------------------------
(* The dates of the composed sections *)

\* the months, days and years the dates are written with
DateMonths == {<<"1">>, <<"1", "2">>}
DateDays == {<<"5">>, <<"3", "1">>}
DateYears == {<<"2", "4">>, <<"5", "0">>, <<"2", "0", "2", "4">>}

\* the text M/D/Y
DateChars(m, d, y) == m \o <<"/">> \o d \o <<"/">> \o y
DateTexts == {DateChars(m, d, y) : m \in DateMonths, d \in DateDays, y \in DateYears}

\* the bundle with the dates in the activity summary or in the Word
\* Control key values
DateBundle(source, start, end) ==
    Bundle(Rec(<<<<"case_number", L("2024-001")>>>>),
           IF source = "activity_summary"
           THEN Rec(<<<<"activity_summary",
                        Rec(<<<<"start_date", Str(start)>>, <<"end_date", Str(end)>>>>)>>>>)
           ELSE Rec(<<<<"word_control_macro",
                        Rec(<<<<"key_values",
                                Rec(<<<<"Start Date", Str(start)>>,
                                      <<"End Date", Str(end)>>>>)>>>>)>>>>))

InitDate ==
    /\ \E source \in {"activity_summary", "key_values"} :
          \E start \in DateTexts :
             \E end \in DateTexts : response = DateBundle(source, start, end)
    /\ NotRun

NextDate == MapSections \/ MapNarrative

SpecDate == InitDate /\ [][NextDate]_vars

\* the bundle's dates
DatesInSummary == "activity_summary" \in DOMAIN response.v.excel_data.v
BundleDate(field, label) ==
    IF DatesInSummary THEN response.v.excel_data.v.activity_summary.v[field].v
    ELSE response.v.excel_data.v.word_control_macro.v.key_values.v[label].v

\* the position of the n-th "/" of a date text
SlashPosition(text, n) ==
    CHOOSE i \in DOMAIN text :
        text[i] = "/" /\ Cardinality({j \in 1..(i - 1) : text[j] = "/"}) = n - 1

\* MM/DD/YYYY for the same day: month and day padded to two digits, a
\* two-digit year below 50 in 20xx and from 50 on in 19xx
PadTwo(digits) == IF Len(digits) = 1 THEN <<"0">> \o digits ELSE digits
FourDigitYear(digits) ==
    IF Len(digits) = 4 THEN digits
    ELSE IF 10 * DigitVal(digits[1]) + DigitVal(digits[2]) < 50 THEN <<"2", "0">> \o digits
    ELSE <<"1", "9">> \o digits
CanonicalDate(text) ==
    PadTwo(SubSeq(text, 1, SlashPosition(text, 1) - 1))
    \o <<"/">>
    \o PadTwo(SubSeq(text, SlashPosition(text, 1) + 1, SlashPosition(text, 2) - 1))
    \o <<"/">>
    \o FourDigitYear(SubSeq(text, SlashPosition(text, 2) + 1, Len(text)))

\* the fragments of a section between two of its template fragments
Shown(key, start, stop) == Between(ContentOf(key), start, stop)

\* C19: a start or end date written M/D/YY or M/D/YYYY is shown in the
\* composed sections as MM/DD/YYYY for the same day: in the activity
\* summary and the introduction of the 11-section mapper and in the summary
\* of the 5-section mapper.
C19_DatesAreCanonical ==
    /\ schema = "sections" =>
          /\ Shown("activity_summary", " from ", " to ")
                = CanonicalDate(BundleDate("start_date", "Start Date"))
          /\ Shown("activity_summary", " to ", " included total credits of ")
                = CanonicalDate(BundleDate("end_date", "End Date"))
          /\ DatesInSummary =>
                /\ Shown("introduction", ". The suspicious activity was conducted from ",
                         " through ")
                      = CanonicalDate(BundleDate("start_date", "Start Date"))
                /\ Shown("introduction", " through ", ".")
                      = CanonicalDate(BundleDate("end_date", "End Date"))
    /\ schema = "narrative" =>
          /\ Shown("suspicious_activity_summary",
                   ". The suspicious activity was conducted from ", " through ")
                = CanonicalDate(BundleDate("start_date", "Start Date"))
          /\ Shown("suspicious_activity_summary", " through ",
                   ". The AML indicators were as follows: ")
                = CanonicalDate(BundleDate("end_date", "End Date"))

\* the start date 1/5/24 shown as it was given
C19_Witness ==
    /\ schema = "sections"
    /\ DatesInSummary
    /\ BundleDate("start_date", "Start Date") = <<"1", "/", "5", "/", "2", "4">>
    /\ CanonicalDate(BundleDate("start_date", "Start Date"))
          = <<"0", "1", "/", "0", "5", "/", "2", "0", "2", "4">>
    /\ Shown("activity_summary", " from ", " to ") = <<"1", "/", "5", "/", "2", "4">>
    /\ Shown("introduction", ". The suspicious activity was conducted from ", " through ")
          = <<"1", "/", "5", "/", "2", "4">>

----------------------------------------------------------------------------
(* The bundle after the call *)

----------------------------------------------------------------------------
(* The flattened narrative *)

\* the keys of templateSections in the order the literal writes them
TemplateSectionOrder ==
    [i \in DOMAIN mapBackendDataToSections_entries(response) |->
        mapBackendDataToSections_entries(response)[i][1]]

\* the non-empty contents in that order, a blank line between two of them
ContentsInOrder == flatten(sections, TemplateSectionOrder)

\* C21: the flattened narrative of the preview is the contents of the
\* non-empty sections of the assembled mapping, each once, in the
\* assembler's order, a blank line between consecutive contents.
C21_FlattenedNarrative ==
    schema = "sections" /\ outcome = "returned" =>
        /\ buildFullNarrative(sections) = ContentsInOrder
        /\ buildFullNarrative_preview(sections) = ContentsInOrder

\* the SAR conclusion has content and the flattened narrative is only the
\* introduction, the activity summary and the transaction samples
C21_Witness ==
    /\ schema = "sections" /\ outcome = "returned"
    /\ Truthy(sections["sar_conclusion"].content)
    /\ Truthy(sections["subject_account_info"].content)
    /\ buildFullNarrative(sections) =
            flatten(sections, <<"introduction", "activity_summary", "transaction_samples">>)
    /\ buildFullNarrative(sections) # ContentsInOrder

----------------------------------------------------------------------------
(* One classification for the three sections *)

\* how the introduction and the SAR conclusion name each branch, and how
\* the investigation summary does
NarrativeLabels ==
    [structuring |-> "structuring", wire |-> "wire transfer activity",
     cash |-> "cash activity", generic |-> "suspicious activity"]
SummaryLabels ==
    [structuring |-> "structuring", wire |-> "unusual wire/ACH activity",
     cash |-> "unusual cash activity", generic |-> "suspicious activity"]

\* the branches a section names
BranchesNamed(key, labels) == {b \in Branches : Says(key, labels[b])}

\* C23: for one transaction list, the introduction, the SAR conclusion and
\* the investigation summary each name one branch of the ladder, and it is
\* the same branch in the three of them.
C23_OneBranchForAll ==
    schema # "none" /\ outcome = "returned" =>
        \E b \in Branches :
            /\ BranchesNamed("introduction", NarrativeLabels) = {b}
            /\ BranchesNamed("sar_conclusion", NarrativeLabels) = {b}
            /\ BranchesNamed("investigation_summary", SummaryLabels) = {b}

\* three ACH transfers of 500.00: the three sections name the wire branch
C23_Witness ==
    /\ schema = "sections" /\ outcome = "returned"
    /\ SampledTransactions = <<ClassifyKinds[4], ClassifyKinds[4], ClassifyKinds[4]>>
    /\ Says("introduction", "wire transfer activity")
    /\ Says("sar_conclusion", "wire transfer activity")
    /\ Says("investigation_summary", "unusual wire/ACH activity")

----------------------------------------------------------------------------
(* The two sentences of the primary transaction types *)

MaxBreakdown == 3

\* category i with a credit and a debit total, either of which can be 0
SidedCategory(i, credit, debit) ==
    Rec(<<<<"Custom Language Transaction Category", L(EntryNames[i])>>,
          <<"Credits ($ Total)", N(credit)>>, <<"Credits (# Transactions)", N(1)>>,
          <<"Debits ($ Total)", N(debit)>>, <<"Debits (# Transactions)", N(1)>>>>)

CategoryBundle(credits, debits) ==
    Bundle(Rec(<<<<"case_number", L("2024-001")>>>>),
           Rec(<<<<"transactions_summary",
                   Rec(<<<<"category_summary",
                           Rec(<<<<"categories",
                                   Arr([i \in DOMAIN credits |->
                                           SidedCategory(i, credits[i], debits[i])])>>>>)>>>>)>>>>))

\* a breakdown of n entries, absent when n is -1
Breakdown(n) ==
    Opt(n >= 0, Arr([i \in 1..n |-> BreakdownEntry(i, 100)]))

LegacyBundle(c, d) ==
    Bundle(Rec(<<<<"case_number", L("2024-001")>>>>),
           Rec(<<<<"transaction_summary",
                   Rec(<<<<"credit_breakdown", Breakdown(c)>>,
                         <<"debit_breakdown", Breakdown(d)>>>>)>>>>))

InitBreakdown ==
    /\ \/ \E n \in 0..MaxBreakdown :
             \E credits \in [1..n -> {0, 100}] :
                \E debits \in [1..n -> {0, 200}] :
                   response = CategoryBundle(credits, debits)
       \/ \E c \in -1..MaxBreakdown :
             \E d \in -1..MaxBreakdown : response = LegacyBundle(c, d)
    /\ NotRun

NextBreakdown == MapSections

SpecBreakdown == InitBreakdown /\ [][NextBreakdown]_vars

\* the entries of one side of the bundle's legacy breakdown, none when the
\* breakdown is absent
LegacyEntries(side) ==
    Or(QDot(QDot(QDot(response, "excel_data"), "transaction_summary"), side), Arr(<<>>)).v

\* the categories of the bundle, none when there is no category summary
Categories ==
    Or(QDot(QDot(QDot(QDot(response, "excel_data"), "transactions_summary"),
                 "category_summary"), "categories"), Arr(<<>>)).v

\* how many entries the resolved source of one side has: the categories
\* with a positive total of that side, or the legacy breakdown of that side
SourceCount(total, side) ==
    IF Categories # <<>>
    THEN Cardinality({i \in DOMAIN Categories : Categories[i].v[total].v > 0})
    ELSE Len(LegacyEntries(side))

CreditSentence == "The primary credit transaction types were "
DebitSentence == "The primary debit transaction types were "

\* C24: the activity summary has the sentence of the primary credit types
\* exactly when the resolved credit source has an entry, and the sentence of
\* the primary debit types exactly when the resolved debit source has one,
\* whatever the other side holds; the suspicious-activity section does the
\* same on the legacy breakdowns.
C24_SentencePerSide ==
    schema = "sections" /\ outcome = "returned" =>
        /\ Says("activity_summary", CreditSentence)
              <=> SourceCount("Credits ($ Total)", "credit_breakdown") > 0
        /\ Says("activity_summary", DebitSentence)
              <=> SourceCount("Debits ($ Total)", "debit_breakdown") > 0
        /\ Says("suspicious_activity", CreditSentence)
              <=> Len(LegacyEntries("credit_breakdown")) > 0
        /\ Says("suspicious_activity", DebitSentence)
              <=> Len(LegacyEntries("debit_breakdown")) > 0

\* a legacy credit breakdown of two entries and no debit breakdown: the
\* suspicious-activity section lists the credit types and the activity
\* summary does not
C24_Witness ==
    /\ schema = "sections" /\ outcome = "returned"
    /\ Len(LegacyEntries("credit_breakdown")) = 2
    /\ Dot(Dot(Dot(response, "excel_data"), "transaction_summary"), "debit_breakdown")
          = Undefined
    /\ Says("suspicious_activity", CreditSentence)
    /\ ~Says("activity_summary", CreditSentence)

\* the sentences are as stated whenever both legacy breakdowns are there
\* or the categories are
SentencesWhenBothGiven ==
    schema = "sections" /\ outcome = "returned"
    /\ (Categories # <<>>
        \/ \A side \in {"credit_breakdown", "debit_breakdown"} :
              Truthy(QDot(QDot(QDot(response, "excel_data"), "transaction_summary"), side)))
    => /\ Says("activity_summary", CreditSentence)
             <=> SourceCount("Credits ($ Total)", "credit_breakdown") > 0
       /\ Says("activity_summary", DebitSentence)
             <=> SourceCount("Debits ($ Total)", "debit_breakdown") > 0

----------------------------------------------------------------------------
(* Content that comes ready with the response *)

\* the sections of the response an output section is taken from
ReadyNames ==
    [introduction |-> "introduction", subject_account_info |-> "account_info",
     suspicious_activity |-> "activity_summary",
     transaction_samples |-> "transaction_samples", sar_conclusion |-> "conclusion"]

ReadyKeys == DOMAIN ReadyNames

\* what the response holds for a section: nothing, a section without
\* content, an empty content or a text
ReadyShapes == {"absent", "no_content", "empty", "text"}

ReadySection(name, shape) ==
    Opt(shape # "absent",
        Rec(<<<<"title", L("ready")>>,
              <<"content", Opt(shape # "no_content",
                               IF shape = "empty" THEN EmptyStr
                               ELSE Str(<<"ready ", name>>))>>>>))

ReadyBundle(withSections, shapes) ==
    Rec(<<<<"case_data", Rec(<<<<"case_number", L("2024-001")>>>>)>>,
          <<"excel_data", EmptyObj>>,
          <<"sections",
            Opt(withSections,
                Obj([name \in {ReadyNames[k] : k \in {k \in ReadyKeys :
                                                    shapes[k] # "absent"}} |->
                        ReadySection(name, shapes[CHOOSE k \in ReadyKeys :
                                                     ReadyNames[k] = name])]))>>>>)

InitReady ==
    /\ \/ response = ReadyBundle(FALSE, [k \in ReadyKeys |-> "absent"])
       \/ \E shapes \in [ReadyKeys -> ReadyShapes] : response = ReadyBundle(TRUE, shapes)
    /\ NotRun

NextReady == MapSections \/ MapRecommendation

SpecReady == InitReady /\ [][NextReady]_vars

\* the content the response carries for an output section
ReadyFor(key) == QDot(QDot(QDot(response, "sections"), ReadyNames[key]), "content")

\* the text composed from the bundle for an output section
ComposedFor(key) ==
    CASE key = "introduction" -> formatIntroduction(response)
      [] key = "subject_account_info" -> formatSubjectAccountInfo(Dot(response, "case_data"))
      [] key = "suspicious_activity" ->
            formatSuspiciousActivity(Dot(response, "excel_data"), Dot(response, "case_data"))
      [] key = "transaction_samples" -> formatTransactionSamples(Dot(response, "excel_data"))
      [] key = "sar_conclusion" ->
            formatSARConclusion(Dot(response, "case_data"), Dot(response, "excel_data"))

\* C25: an output section whose content comes non-empty with the response
\* (sections.introduction, account_info, activity_summary,
\* transaction_samples, conclusion) has exactly that content; the composed
\* text is there only when that content is absent or empty.
C25_ReadyContentKept ==
    schema # "none" /\ outcome = "returned" =>
        \A key \in ReadyKeys :
            sections[key].content =
                IF ReadyFor(key).t = "string" /\ ReadyFor(key).v # <<>>
                THEN ReadyFor(key)
                ELSE ComposedFor(key)

\* the introduction comes ready and is kept, the account section comes
\* without content and the conclusion with an empty one: both are composed
C25_Witness ==
    /\ schema = "sections" /\ outcome = "returned"
    /\ ReadyFor("introduction") = Str(<<"ready ", "introduction">>)
    /\ sections["introduction"].content = Str(<<"ready ", "introduction">>)
    /\ "account_info" \in DOMAIN response.v.sections.v
    /\ ReadyFor("subject_account_info") = Undefined
    /\ ReadyFor("sar_conclusion") = EmptyStr
    /\ sections["subject_account_info"].content = ComposedFor("subject_account_info")
    /\ Says("sar_conclusion", "In conclusion, USB is reporting ")

----------------------------------------------------------------------------
(* The scope of review *)

MaxScopeAlerts == 2

\* what a review period holds: nothing at all, neither date, one of them,
\* or both
PeriodShapes == {"absent", "empty", "start", "end", "both"}

\* the review period of an owner (the case, the alert object, alert i of
\* the list), its dates named after the owner
Period(owner, shape) ==
    Opt(shape # "absent",
        Rec(<<<<"start", Opt(shape \in {"start", "both"}, Str(<<owner, " start">>))>>,
              <<"end", Opt(shape \in {"end", "both"}, Str(<<owner, " end">>))>>>>))

AlertOwners == <<"alert 1", "alert 2", "alert 3">>

ScopeAlert(owner, shape) ==
    Rec(<<<<"description", L("alert")>>, <<"review_period", Period(owner, shape)>>>>)

ScopeBundle(casePeriod, alertInfo) ==
    Bundle(Rec(<<<<"case_number", L("2024-001")>>,
                 <<"review_period", casePeriod>>,
                 <<"alert_info", alertInfo>>>>),
           EmptyObj)

InitScope ==
    /\ \E shape \in PeriodShapes :
          \/ response = ScopeBundle(Period("case", shape), Undefined)
          \/ \E a \in PeriodShapes :
                response = ScopeBundle(Period("case", shape), ScopeAlert("alert", a))
          \/ \E n \in 0..MaxScopeAlerts :
                \E as \in [1..n -> PeriodShapes] :
                   response = ScopeBundle(Period("case", shape),
                                          Arr([i \in 1..n |->
                                                  ScopeAlert(AlertOwners[i], as[i])]))
    /\ NotRun

NextScope == MapRecommendation

SpecScope == InitScope /\ [][NextScope]_vars

CaseReviewPeriod == QDot(Dot(response, "case_data"), "review_period")
CaseAlerts == QDot(Dot(response, "case_data"), "alert_info")

\* the period the rules choose: the case's, else the first alert's of a
\* list or the one of the alert object, else none
ChosenPeriod ==
    IF CaseReviewPeriod # Undefined THEN CaseReviewPeriod
    ELSE IF CaseAlerts.t = "array"
    THEN IF CaseAlerts.v # <<>> THEN Dot(CaseAlerts.v[1], "review_period") ELSE Undefined
    ELSE IF CaseAlerts.t = "object" THEN Dot(CaseAlerts, "review_period")
    ELSE Undefined

ScopeText == ContentOf("scope_of_review")

\* C26: the scope of review takes the case's review period when there is
\* one, else the one of the first alert of the list or of the alert object,
\* else it is "Review period not specified."; a chosen period that lacks
\* its start or its end gives "Review period not fully specified." and no
\* other source is looked at.
C26_ScopeOfReview ==
    schema = "recommendation" /\ outcome = "returned" =>
        IF ChosenPeriod = Undefined
        THEN ScopeText = <<"Review period not specified.">>
        ELSE IF Dot(ChosenPeriod, "start") = Undefined \/ Dot(ChosenPeriod, "end") = Undefined
        THEN ScopeText = <<"Review period not fully specified.">>
        ELSE /\ Len(ScopeText) > 2
             /\ Between(ScopeText, "This investigation covers the period from ", " through ")
                   = Dot(ChosenPeriod, "start").v
             /\ Between(ScopeText, " through ", ScopeText[Len(ScopeText)])
                   = Dot(ChosenPeriod, "end").v

\* the case's period has its start only and the first alert has both
\* dates: the text is the "not fully specified" one
C26_Witness ==
    /\ schema = "recommendation" /\ outcome = "returned"
    /\ CaseReviewPeriod = Period("case", "start")
    /\ CaseAlerts.t = "array" /\ Len(CaseAlerts.v) = 2
    /\ Dot(CaseAlerts.v[1], "review_period") = Period("alert 1", "both")
    /\ ScopeText = <<"Review period not fully specified.">>

\* no period on the case, none on the first alert, both dates on the
\* second: the text is the "not specified" one
C26_WitnessFirstAlertOnly ==
    /\ schema = "recommendation" /\ outcome = "returned"
    /\ CaseReviewPeriod = Undefined
    /\ CaseAlerts.t = "array" /\ Len(CaseAlerts.v) = 2
    /\ Dot(CaseAlerts.v[1], "review_period") = Undefined
    /\ Dot(CaseAlerts.v[2], "review_period") = Period("alert 2", "both")
    /\ ScopeText = <<"Review period not specified.">>

----------------------------------------------------------------------------
(* The edit page *)

\* the narrative section and the recommendation the response of getSections
\* carries: the alerting activity absent, empty, blank or written, the
\* prior SARs empty or written, the scope written and the CTA empty
PageNarrative ==
    Obj([suspicious_activity_summary |->
            Section("suspicious_activity_summary", "Suspicious Activity Summary",
                    L("summary text"))])

AlertingContents == <<Undefined, EmptyStr, L(" "), L("alerting text")>>
PriorContents == <<EmptyStr, L("prior text")>>

PageRecommendation(a, b) ==
    Rec(<<<<"alerting_activity", AlertingContents[a]>>,
          <<"prior_sars", PriorContents[b]>>,
          <<"scope_of_review", L("scope text")>>,
          <<"cta", EmptyStr>>>>)

PageResponse(status, withSections, recommendation) ==
    Rec(<<<<"status", L(status)>>,
          <<"sections", Opt(withSections, PageNarrative)>>,
          <<"recommendation", recommendation>>,
          <<"case_data", Rec(<<<<"case_number", L("2024-001")>>>>)>>>>)

InitPage ==
    /\ \E status \in {"success", "error"} :
          \E withSections \in BOOLEAN :
             \/ response = PageResponse(status, withSections, Undefined)
             \/ \E a \in DOMAIN AlertingContents :
                   \E b \in DOMAIN PriorContents :
                      response = PageResponse(status, withSections, PageRecommendation(a, b))
    /\ NotRun

NextPage ==
    \/ FetchSections
    \/ HandleTabChange
    \/ HandleContentChange
    \/ HandleSaveSection
    \/ SaveAnswered
    \/ HandleRegenerateSection
    \/ RegenerationAnswered
    \/ AlertingActivityAnswered
    \/ PriorCasesAnswered

SpecPage == InitPage /\ [][NextPage]_vars

PageTypeOK ==
    /\ page.alertFetches \in 0..(MaxEvents + 1)
    /\ page.priorFetches \in 0..(MaxEvents + 1)
    /\ Len(page.saves) <= MaxEvents
    /\ Len(page.regenerations) <= MaxEvents

----------------------------------------------------------------------------
(* A summary request that fails *)

\* the page load and its two summary requests; every request in flight is
\* answered or fails in the end
NextSummary ==
    \/ FetchSections
    \/ AlertingActivityAnswered
    \/ PriorCasesAnswered

SpecSummary ==
    /\ InitPage
    /\ [][NextSummary]_vars
    /\ WF_vars(FetchSections)
    /\ WF_vars(AlertingActivityAnswered)
    /\ WF_vars(PriorCasesAnswered)

\* a step in which a summary request is answered by a failure
AlertingActivityFails ==
    page'.alertFetches < page.alertFetches /\ page'.alertFailed
PriorCasesFails ==
    page'.priorFetches < page.priorFetches /\ page'.priorFailed

\* the entries of the recommendation that are not blank are the same after
\* the step
WrittenEntriesKept ==
    \A k \in DOMAIN page.recommendation.v :
        ~isBlank(page.recommendation.v[k]) =>
            /\ k \in DOMAIN page'.recommendation.v
            /\ page'.recommendation.v[k] = page.recommendation.v[k]

\* the statement as given: a summary request that fails leaves the error
\* state, the sections and the whole recommendation as they were
C22_FailureChangesNothing ==
    [][AlertingActivityFails \/ PriorCasesFails =>
            /\ page'.error = page.error
            /\ sections' = sections
            /\ page'.recommendation = page.recommendation]_vars

\* a failing summary request does not set the error, leaves the sections
\* and the written entries of the recommendation, and lowers its flag
FailureStepHarmless ==
    [][AlertingActivityFails \/ PriorCasesFails =>
            /\ page'.error = page.error
            /\ sections' = sections
            /\ WrittenEntriesKept
            /\ AlertingActivityFails => ~page'.isLoadingAlertActivity
            /\ PriorCasesFails => ~page'.isLoadingPriorCases]_vars

\* C22: a summary request (alerting activity, prior cases) that answers an
\* error status or fails does not set the page's error, leaves the sections
\* and every written entry of the recommendation as they were, and lowers
\* its loading flag; a raised loading flag always falls again.  (An entry
\* that is blank can receive, in the same step, the summary another request
\* has delivered.)
C22_FailureNotPropagated ==
    /\ FailureStepHarmless
    /\ page.isLoadingAlertActivity ~> ~page.isLoadingAlertActivity
    /\ page.isLoadingPriorCases ~> ~page.isLoadingPriorCases

\* both summary requests of the page load have failed: no error is shown,
\* nothing is loading and the recommendation is the one that was loaded
C22_Witness ==
    /\ schema = "fetched"
    /\ page.alertFailed /\ page.priorFailed
    /\ page.alertFetches = 0 /\ page.priorFetches = 0
    /\ ~page.isLoadingAlertActivity /\ ~page.isLoadingPriorCases
    /\ page.error = null
    /\ page.events = 0
    /\ page.recommendation = PageRecommendation(4, 2)

\* the alerting-activity summary has arrived while the prior cases were
\* loading, and the prior-cases request has failed: the blank alerting
\* activity now holds the summary
C22_WitnessInitialised ==
    /\ schema = "fetched"
    /\ page.priorFailed /\ ~page.alertFailed
    /\ page.events = 0
    /\ page.alertFetches = 0 /\ page.priorFetches = 0
    /\ Dot(response, "recommendation") = PageRecommendation(2, 2)
    /\ Dot(page.recommendation, "alerting_activity") = generatedAlert
    /\ page.error = null

----------------------------------------------------------------------------
(* The tab and the section in the editor *)

\* C27: once the user has selected tabs, edited, saved or regenerated, the
\* section held in the editor is the one of the selected tab, also when the
\* selected recommendation entry is empty.
C27_EditorHoldsSelectedTab ==
    schema = "fetched" /\ page.events > 0 /\ page.activeSection # null =>
        page.activeSection.id = page.activeTab

\* the CTA tab, whose entry is empty, is selected, and the editor still
\* holds the narrative section: a save sends that section
C27_Witness ==
    /\ schema = "fetched"
    /\ page.activeTab = "cta"
    /\ Dot(page.recommendation, "cta") = EmptyStr
    /\ page.activeSection # null
    /\ page.activeSection.id = "suspicious_activity_summary"
    /\ page.saves # <<>>
    /\ Head(page.saves).sectionId = "suspicious_activity_summary"

----------------------------------------------------------------------------
(* A regeneration answered after another section was selected *)

\* the ids of the sections and of the recommendation entries
SectionIds == {KeyOrder[i] : i \in DOMAIN KeyOrder}

\* text is the regenerated content of a section other than id
RegeneratedForAnother(text, id) ==
    \E other \in SectionIds \ {id} : text = regeneratedContent(other)

\* C28: the answer to a regeneration changes the content of the section it
\* was asked for and of no other: the content shown for the section in the
\* editor, and what the server stores for a section, is never the
\* regenerated text of another section.
C28_RegenerationOfItsSection ==
    /\ page.activeSection # null =>
            ~RegeneratedForAnother(page.activeSection.content, page.activeSection.id)
    /\ \A id \in DOMAIN page.stored : ~RegeneratedForAnother(page.stored[id], id)
    /\ \A id \in DOMAIN sections : ~RegeneratedForAnother(sections[id].content, id)
    /\ \A id \in DOMAIN page.recommendation.v :
            ~RegeneratedForAnother(page.recommendation.v[id], id)

\* the narrative section was being regenerated when the scope of review was
\* selected: the server has stored the regenerated narrative text as the
\* scope of review
C28_Witness ==
    /\ schema = "fetched"
    /\ "scope_of_review" \in DOMAIN page.stored
    /\ page.stored["scope_of_review"] = regeneratedContent("suspicious_activity_summary")
    /\ Dot(page.recommendation, "scope_of_review") = L("scope text")

\* the answer does write the section it was asked for, and only that one,
\* in the sections and in the recommendation
RegenerationWritesItsSection ==
    /\ \A id \in DOMAIN sections : ~RegeneratedForAnother(sections[id].content, id)
    /\ \A id \in DOMAIN page.recommendation.v :
            ~RegeneratedForAnother(page.recommendation.v[id], id)

----------------------------------------------------------------------------
(* The generated summaries *)

\* the summary generated for an entry of the recommendation
GeneratedFor == [alerting_activity |-> generatedAlert, prior_sars |-> generatedPrior]

\* the page of a case that loads: the response is a success with its
\* sections, its recommendation absent or with each shape of the two entries
InitGenerated ==
    /\ \/ response = PageResponse("success", TRUE, Undefined)
       \/ \E a \in DOMAIN AlertingContents :
             \E b \in DOMAIN PriorContents :
                response = PageResponse("success", TRUE, PageRecommendation(a, b))
    /\ NotRun

SpecGenerated == InitGenerated /\ [][NextPage]_vars

----------------------------------------------------------------------------
(* The write requests in flight *)

\* C30: at most one write request (a save or a regeneration) is in flight.
C30_OneWriteInFlight ==
    Len(page.saves) + Len(page.regenerations) <= 1

\* a save and a regeneration are in flight together
C30_Witness ==
    /\ schema = "fetched"
    /\ Len(page.saves) = 1 /\ Len(page.regenerations) = 1
    /\ page.isSaving /\ page.isRegenerating

\* two saves, or two regenerations, are never in flight together
OneOfEachInFlight ==
    Len(page.saves) <= 1 /\ Len(page.regenerations) <= 1

====
